---- MODULE Spec2Model ----
(***************************************************************************)
(* Batch sessions and batch execution of the CloudWatch Application        *)
(* Signals MCP server: the session store and process_next_batch of         *)
(* batch_processing_utils.py, the planner of batch_state.py and the        *)
(* non-interactive pass execute_audit_api of audit_utils.py.               *)
(***************************************************************************)
EXTENDS Integers, Sequences, FiniteSets, TLC

VARIABLES
    sessions,   \* _batch_sessions: session id -> session dict
    nextId,     \* number of uuid4() session ids handed out so far
    clock,      \* datetime.now(timezone.utc)
    last,       \* the last operation: its arguments, returned value, API calls
    plan,       \* the planners applied to one target list
    audit,      \* one execute_audit_api pass
    active,     \* ACTIVE_BATCH_SESSIONS: session id -> BatchProcessingState
    inflight,   \* the process_next_batch calls waiting for list_audit_findings
    resolve     \* one call of a wildcard resolver

vars == <<sessions, nextId, clock, last, plan, audit, active, inflight, resolve>>

----------------------------------------------------------------------------
(* Bounds of the model *)

MaxSessions == 2      \* session ids handed out
MaxTargets == 2       \* targets held by the sessions of the store, in total
MaxBatchSize == 2     \* batch_size of one create_batch_session call
MaxFindings == 1      \* findings of one list_audit_findings response
MaxPlanTargets == 7   \* targets handed to the planners
MaxPlanBatchSize == 4 \* batch_size handed to the planner of create_batch_session
MaxAuditTargets == 11 \* targets of one execute_audit_api pass
MaxClock == 2         \* ticks of the clock between the calls
MaxCallers == 2       \* callers of process_next_batch at the same time
MaxPageSize == 3      \* services of one list_services page
MaxResolveTargets == 2 \* targets of one resolver call
MaxFuzzyTargets == 1  \* targets of a request with an inexact name
MaxFuzzyPageSize == 4 \* entities in a page scored against an inexact name
MaxSloTargets == 2    \* targets of one expand_slo_wildcard_patterns call
MaxOperationTargets == 1 \* targets of one expand_service_operation_wildcard_patterns call
MaxTokenRuns == 3     \* runs of characters of one kind in a pagination token
MaxAuditorItems == 2  \* items of an auditors string
MaxProgressTargets == 11 \* targets of one BatchProcessingState
MaxExtraCalls == 1    \* get_next_batch and add_batch_result calls beyond the number of chunks

(* Program constants *)

DEFAULT_BATCH_SIZE == 5
BATCH_SESSION_TIMEOUT == 3600

----------------------------------------------------------------------------
(* Python values *)

None == [py |-> "None"]

\* the empty dict of sessions
EmptyStore == [id \in {} |-> None]

Min(a, b) == IF a <= b THEN a ELSE b

\* range(start, stop, step) for step > 0, as the sequence of its values
RECURSIVE PyRange(_, _, _)
PyRange(start, stop, step) ==
    IF start >= stop THEN <<>>
    ELSE <<start>> \o PyRange(start + step, stop, step)

\* s[lo:hi] for 0 <= lo <= hi (Python slices clamp at the end of the list)
PySlice(s, lo, hi) == SubSeq(s, lo + 1, Min(hi, Len(s)))

\* datetime.fromtimestamp(ts, tz=timezone.utc)
FromTimestamp(ts) == [utc |-> ts]

\* datetime.now(timezone.utc).isoformat()
IsoFormat(t) == [iso |-> t]

\* the target lists: n distinct targets in a fixed order
Targets(n) == [i \in 1..n |-> i]

\* the stored request parameters, with and without Auditors
InputObjs ==
    { [StartTime |-> 100, EndTime |-> 200],
      [StartTime |-> 100, EndTime |-> 200, Auditors |-> "slo"] }

\* what list_audit_findings does on one call: it returns a response dict
\* (with or without an AuditFindings key) or raises
FindingSeqs == { [i \in 1..j |-> i] : j \in 0..MaxFindings }
ErrorMessages == {"API error"}
ApiBehaviours ==
    { [kind |-> "ok", response |-> [AuditFindings |-> f]] : f \in FindingSeqs }
    \cup { [kind |-> "ok", response |-> [ResponseMetadata |-> "m"]] }
    \cup { [kind |-> "raise", message |-> m] : m \in ErrorMessages }

\* response.get('AuditFindings', [])
GetAuditFindings(response) ==
    IF "AuditFindings" \in DOMAIN response THEN response.AuditFindings ELSE <<>>

----------------------------------------------------------------------------
(* batch_processing_utils.py *)

\* CreateBatches with range(0, len(targets) - batch_size + 1, batch_size):
\* only the full chunks
CreateBatches_DropsRemainder(targets, batch_size) ==
    LET starts == PyRange(0, Len(targets) - batch_size + 1, batch_size)
    IN  [k \in 1..Len(starts) |-> PySlice(targets, starts[k], starts[k] + batch_size)]

\* the chunking loop of create_batch_session
CreateBatches(targets, batch_size) ==
    LET starts == PyRange(0, Len(targets), batch_size)
    IN  [k \in 1..Len(starts) |-> PySlice(targets, starts[k], starts[k] + batch_size)]

\* AutoDecide with "len(targets) < batch_size" for the undecided mode
AutoDecide_StrictlyBelow(targets, batch_size, auto_complete) ==
    IF auto_complete = {} THEN Len(targets) < batch_size
    ELSE CHOOSE b \in auto_complete : TRUE

\* auto_complete is {} for None and {b} for the boolean b
AutoDecide(targets, batch_size, auto_complete) ==
    IF auto_complete = {} THEN Len(targets) <= batch_size
    ELSE CHOOSE b \in auto_complete : TRUE

\* the session dict built by create_batch_session
NewSession(session_id, targets, input_obj, batch_size, auto_complete, now) ==
    [ session_id |-> session_id,
      created_at |-> IsoFormat(now),
      last_activity |-> IsoFormat(now),
      targets |-> targets,
      input_obj |-> input_obj,
      batches |-> CreateBatches(targets, batch_size),
      current_batch_index |-> 0,
      processed_batches |-> <<>>,
      failed_batches |-> <<>>,
      all_findings |-> <<>>,
      auto_complete |-> AutoDecide(targets, batch_size, auto_complete),
      status |-> "created" ]

\* create_batch_session that binds _batch_sessions to a dict of the new
\* session alone
create_batch_session_ForgetsTheOthers(store, session_id, targets, input_obj, batch_size, auto_complete, now) ==
    [ id \in {session_id} |->
        NewSession(session_id, targets, input_obj, batch_size, auto_complete, now) ]

\* create_batch_session: the store after the call
create_batch_session(store, session_id, targets, input_obj, batch_size, auto_complete, now) ==
    [ id \in DOMAIN store \cup {session_id} |->
        IF id = session_id
        THEN NewSession(session_id, targets, input_obj, batch_size, auto_complete, now)
        ELSE store[id] ]

get_batch_session(store, session_id) ==
    IF session_id \in DOMAIN store THEN store[session_id] ELSE None

\* update_batch_session_activity refreshing every session of the store
update_batch_session_activity_TouchesAll(store, session_id, now) ==
    IF session_id \in DOMAIN store
    THEN [id \in DOMAIN store |-> [store[id] EXCEPT !.last_activity = IsoFormat(now)]]
    ELSE store

update_batch_session_activity(store, session_id, now) ==
    IF session_id \in DOMAIN store
    THEN [store EXCEPT ![session_id].last_activity = IsoFormat(now)]
    ELSE store

_create_batch_metadata(session, current_batch) ==
    [ batch_index |-> session.current_batch_index + 1,
      total_batches |-> Len(session.batches),
      targets_in_batch |-> Len(current_batch),
      targets |-> current_batch ]

\* _build_api_input with session['input_obj'].get('Auditors', [])
_build_api_input_DefaultAuditors(session, current_batch) ==
    [ StartTime |-> FromTimestamp(session.input_obj.StartTime),
      EndTime |-> FromTimestamp(session.input_obj.EndTime),
      AuditTargets |-> current_batch,
      Auditors |-> IF "Auditors" \in DOMAIN session.input_obj
                   THEN session.input_obj.Auditors ELSE <<>> ]

_build_api_input(session, current_batch) ==
    LET batch_input ==
            [ StartTime |-> FromTimestamp(session.input_obj.StartTime),
              EndTime |-> FromTimestamp(session.input_obj.EndTime),
              AuditTargets |-> current_batch ]
    IN  IF "Auditors" \in DOMAIN session.input_obj
        THEN [Auditors |-> session.input_obj.Auditors] @@ batch_input
        ELSE batch_input

\* _update_session_after_batch with > for >= in the status update
_update_session_after_batch_StrictEnd(session, batch_result) ==
    LET advanced == [session EXCEPT !.current_batch_index = @ + 1]
        recorded ==
            IF batch_result.status = "success"
            THEN [advanced EXCEPT
                    !.processed_batches = Append(@, batch_result),
                    !.all_findings = @ \o batch_result.findings]
            ELSE [advanced EXCEPT !.failed_batches = Append(@, batch_result)]
    IN  [recorded EXCEPT !.status =
            IF recorded.current_batch_index > Len(recorded.batches)
            THEN "completed" ELSE "in_progress"]

\* _update_session_after_batch that moves the cursor for a success only and
\* still records the failure
_update_session_after_batch_KeepsFailedChunk(session, batch_result) ==
    IF batch_result.status = "success"
    THEN LET advanced == [session EXCEPT
                            !.current_batch_index = @ + 1,
                            !.processed_batches = Append(@, batch_result),
                            !.all_findings = @ \o batch_result.findings]
         IN  [advanced EXCEPT !.status =
                 IF advanced.current_batch_index >= Len(advanced.batches)
                 THEN "completed" ELSE "in_progress"]
    ELSE [session EXCEPT !.failed_batches = Append(@, batch_result),
                         !.status = "in_progress"]

\* _update_session_after_batch that steps the cursor back after a failure,
\* for the chunk to be tried again
_update_session_after_batch_StepsBackOnFailure(session, batch_result) ==
    LET moved == [session EXCEPT !.current_batch_index =
                     IF batch_result.status = "success" THEN @ + 1 ELSE @ - 1]
        recorded ==
            IF batch_result.status = "success"
            THEN [moved EXCEPT
                    !.processed_batches = Append(@, batch_result),
                    !.all_findings = @ \o batch_result.findings]
            ELSE [moved EXCEPT !.failed_batches = Append(@, batch_result)]
    IN  [recorded EXCEPT !.status =
            IF recorded.current_batch_index >= Len(recorded.batches)
            THEN "completed" ELSE "in_progress"]

_update_session_after_batch(session, batch_result) ==
    LET advanced == [session EXCEPT !.current_batch_index = @ + 1]
        recorded ==
            IF batch_result.status = "success"
            THEN [advanced EXCEPT
                    !.processed_batches = Append(@, batch_result),
                    !.all_findings = @ \o batch_result.findings]
            ELSE [advanced EXCEPT !.failed_batches = Append(@, batch_result)]
    IN  [recorded EXCEPT !.status =
            IF recorded.current_batch_index >= Len(recorded.batches)
            THEN "completed" ELSE "in_progress"]

\* the batch result built in the try block of process_next_batch
BatchResult(batch_metadata, client) ==
    IF client.kind = "ok"
    THEN LET batch_findings == GetAuditFindings(client.response)
         IN  [ findings_count |-> Len(batch_findings),
               findings |-> batch_findings,
               status |-> "success" ] @@ batch_metadata
    ELSE [error |-> client.message, status |-> "failed"] @@ batch_metadata

\* cleanup_batch_sessions: _batch_sessions.clear()
cleanup_batch_sessions(store) == EmptyStore

\* SessionNotFound that takes the unknown id for an expired one and clears
\* the store
SessionNotFound_Sweeps(store) ==
    [ store |-> cleanup_batch_sessions(store),
      result |-> [error |-> "Session not found or expired"],
      calls |-> <<>> ]

\* what process_next_batch returns for a session id that is not in the store
SessionNotFound(store) ==
    [ store |-> store,
      result |-> [error |-> "Session not found or expired"],
      calls |-> <<>> ]

\* NoMoreBatches that also writes the status it reports into the session
NoMoreBatches_MarksCompleted(touched, session_id) ==
    [ store |-> [touched EXCEPT ![session_id].status = "completed"],
      result |-> [error |-> "No more batches to process", status |-> "completed"],
      calls |-> <<>> ]

\* what process_next_batch returns when the cursor is at the end of the
\* batches; touched is the store after update_batch_session_activity
NoMoreBatches(touched, session_id) ==
    [ store |-> touched,
      result |-> [error |-> "No more batches to process", status |-> "completed"],
      calls |-> <<>> ]

\* process_next_batch: the store after the call, the returned dict and the
\* list_audit_findings calls issued, for a client that behaves as `client`
process_next_batch(store, session_id, client, now) ==
    IF get_batch_session(store, session_id) = None
    THEN SessionNotFound(store)
    ELSE
        LET touched == update_batch_session_activity(store, session_id, now)
            session == touched[session_id]
            current_index == session.current_batch_index
            batches == session.batches
        IN  IF current_index >= Len(batches)
            THEN NoMoreBatches(touched, session_id)
            ELSE
                LET current_batch == batches[current_index + 1]
                    batch_metadata == _create_batch_metadata(session, current_batch)
                    batch_input == _build_api_input(session, current_batch)
                    batch_result == BatchResult(batch_metadata, client)
                IN  [ store |-> [touched EXCEPT ![session_id] =
                                    _update_session_after_batch(session, batch_result)],
                      result |-> batch_result,
                      calls |-> <<batch_input>> ]

\* process_next_batch up to the point where list_audit_findings is called:
\* either it returns at once (done) or it holds the session it looked up, the
\* metadata and the input of the call it issues
BeginBatch(store, session_id, now) ==
    IF get_batch_session(store, session_id) = None
    THEN [done |-> TRUE] @@ SessionNotFound(store)
    ELSE
        LET touched == update_batch_session_activity(store, session_id, now)
            session == touched[session_id]
            current_index == session.current_batch_index
            batches == session.batches
        IN  IF current_index >= Len(batches)
            THEN [done |-> TRUE] @@ NoMoreBatches(touched, session_id)
            ELSE
                LET current_batch == batches[current_index + 1]
                IN  [ done |-> FALSE,
                      store |-> touched,
                      call |-> [ pc |-> "calling",
                                 sid |-> session_id,
                                 session |-> session,
                                 batch_metadata |-> _create_batch_metadata(session, current_batch),
                                 batch_input |-> _build_api_input(session, current_batch) ] ]

\* FinishBatch that stores the session it holds under its id again
FinishBatch_StoresBack(store, call, client) ==
    LET batch_result == BatchResult(call.batch_metadata, client)
        session == IF call.sid \in DOMAIN store THEN store[call.sid] ELSE call.session
    IN  [ store |-> [id \in DOMAIN store \cup {call.sid} |->
                        IF id = call.sid
                        THEN _update_session_after_batch(session, batch_result)
                        ELSE store[id]],
          result |-> batch_result ]

\* process_next_batch from the return of list_audit_findings on: the session
\* dict the call holds is the one of the store unless it was removed since,
\* and then the update reaches no stored session
FinishBatch(store, call, client) ==
    LET batch_result == BatchResult(call.batch_metadata, client)
    IN  [ store |-> IF call.sid \in DOMAIN store
                    THEN [store EXCEPT ![call.sid] =
                              _update_session_after_batch(@, batch_result)]
                    ELSE store,
          result |-> batch_result ]

----------------------------------------------------------------------------
(* batch_state.py *)

\* BatchProcessingState._create_batches for input_obj.get('AuditTargets', [])
_create_batches(targets) ==
    LET batch_size == DEFAULT_BATCH_SIZE
    IN  IF Len(targets) <= batch_size
        THEN (IF targets # <<>> THEN <<targets>> ELSE <<>>)
        ELSE CreateBatches(targets, batch_size)

\* BatchProcessingState.__init__ at time now
BatchProcessingState(input_obj, now) ==
    [ input_obj |-> input_obj,
      target_batches |-> _create_batches(input_obj.AuditTargets),
      current_batch_idx |-> 0,
      processed_results |-> <<>>,
      failed_batches |-> <<>>,
      created_at |-> now,
      last_activity |-> now ]

\* BatchProcessingState.has_more_batches
has_more_batches(self) == self.current_batch_idx < Len(self.target_batches)

\* get_next_batch that returns the batch and leaves current_batch_idx alone
get_next_batch_KeepsCursor(self, now) ==
    IF has_more_batches(self)
    THEN [ self |-> [self EXCEPT !.last_activity = now],
           result |-> {self.target_batches[self.current_batch_idx + 1]} ]
    ELSE [self |-> self, result |-> {}]

\* BatchProcessingState.get_next_batch at time now: the state after the call
\* and the Optional result, the set of the batch returned ({} is None)
get_next_batch(self, now) ==
    IF has_more_batches(self)
    THEN [ self |-> [self EXCEPT !.current_batch_idx = @ + 1, !.last_activity = now],
           result |-> {self.target_batches[self.current_batch_idx + 1]} ]
    ELSE [self |-> self, result |-> {}]

\* BatchProcessingState.add_batch_result at time now
add_batch_result(self, result, now) ==
    [self EXCEPT !.processed_results = Append(@, result),
                 !.last_activity = now,
                 !.failed_batches = IF "BatchError" \in DOMAIN result
                                    THEN Append(@, result) ELSE @]

\* total_findings of get_progress_summary
RECURSIVE TotalFindings(_)
TotalFindings(results) ==
    IF results = <<>> THEN 0
    ELSE (IF "AuditFindings" \in DOMAIN Head(results)
          THEN Len(Head(results).AuditFindings) ELSE 0) + TotalFindings(Tail(results))

\* BatchProcessingState.get_progress_summary
get_progress_summary(self) ==
    [ total_batches |-> Len(self.target_batches),
      processed_batches |-> Len(self.processed_results),
      remaining_batches |-> Len(self.target_batches) - Len(self.processed_results),
      successful_batches |-> Len(self.processed_results) - Len(self.failed_batches),
      failed_batches |-> Len(self.failed_batches),
      total_findings |-> TotalFindings(self.processed_results),
      has_more |-> has_more_batches(self) ]

\* store_batch_state: session_id is the id built from uuid4, it need not be new
store_batch_state(store, session_id, state) ==
    [id \in DOMAIN store \cup {session_id} |->
        IF id = session_id THEN state ELSE store[id]]

\* get_batch_state: the store after the call and the state returned, which is
\* the stored object
get_batch_state(store, session_id, now) ==
    IF session_id \in DOMAIN store
    THEN LET refreshed == [store EXCEPT ![session_id].last_activity = now]
         IN  [store |-> refreshed, result |-> refreshed[session_id]]
    ELSE [store |-> store, result |-> None]

cleanup_session(store, session_id) ==
    IF session_id \in DOMAIN store
    THEN [store |-> [id \in DOMAIN store \ {session_id} |-> store[id]], result |-> TRUE]
    ELSE [store |-> store, result |-> FALSE]

\* cleanup_expired_sessions with "current_time - last_activity >= timeout"
cleanup_expired_sessions_AtTimeout(store, now) ==
    LET expired_sessions ==
            {id \in DOMAIN store : now - store[id].last_activity >= BATCH_SESSION_TIMEOUT}
    IN  [ store |-> [id \in DOMAIN store \ expired_sessions |-> store[id]],
          result |-> Cardinality(expired_sessions) ]

cleanup_expired_sessions(store, now) ==
    LET expired_sessions ==
            {id \in DOMAIN store : now - store[id].last_activity > BATCH_SESSION_TIMEOUT}
    IN  [ store |-> [id \in DOMAIN store \ expired_sessions |-> store[id]],
          result |-> Cardinality(expired_sessions) ]

get_active_sessions_count(store, now) ==
    LET swept == cleanup_expired_sessions(store, now).store
    IN  [store |-> swept, result |-> Cardinality(DOMAIN swept)]

----------------------------------------------------------------------------
(* audit_utils.py: execute_audit_api *)

\* the chunking of execute_audit_api
AuditTargetBatches(targets) ==
    LET batch_size == DEFAULT_BATCH_SIZE
    IN  IF Len(targets) > batch_size
        THEN CreateBatches(targets, batch_size)
        ELSE <<targets>>

\* batch_input_obj of the batch batch_targets
AuditBatchInput(input_obj, batch_targets) ==
    LET batch_input_obj ==
            [ StartTime |-> FromTimestamp(input_obj.StartTime),
              EndTime |-> FromTimestamp(input_obj.EndTime),
              AuditTargets |-> batch_targets ]
    IN  IF "Auditors" \in DOMAIN input_obj
        THEN [Auditors |-> input_obj.Auditors] @@ batch_input_obj
        ELSE batch_input_obj

\* the entry appended to all_batch_results for batch batch_idx (1-based)
AuditBatchResult(batch_idx, batch_targets, client) ==
    IF client.kind = "ok"
    THEN client.response
    ELSE [ batch_index |-> batch_idx,
           error |-> <<"API call failed: ", client.message>>,
           targets_count |-> Len(batch_targets) ]

\* AggregatedFindings that puts the findings of a later batch first
RECURSIVE AggregatedFindings_LaterFirst(_)
AggregatedFindings_LaterFirst(results) ==
    IF results = <<>> THEN <<>>
    ELSE LET batch_result == Head(results)
         IN  AggregatedFindings_LaterFirst(Tail(results))
             \o (IF "error" \in DOMAIN batch_result THEN <<>>
                 ELSE GetAuditFindings(batch_result))

RECURSIVE AggregatedFindings(_)
AggregatedFindings(results) ==
    IF results = <<>> THEN <<>>
    ELSE LET batch_result == Head(results)
         IN  (IF "error" \in DOMAIN batch_result THEN <<>>
              ELSE GetAuditFindings(batch_result))
             \o AggregatedFindings(Tail(results))

RECURSIVE ErrorDetails(_)
ErrorDetails(results) ==
    IF results = <<>> THEN <<>>
    ELSE LET batch_result == Head(results)
         IN  (IF "error" \in DOMAIN batch_result
              THEN << [ batch |-> batch_result.batch_index,
                        error |-> batch_result.error,
                        targets_count |-> batch_result.targets_count ] >>
              ELSE <<>>)
             \o ErrorDetails(Tail(results))

\* the value returned by execute_audit_api, without the banner
AuditOutput(all_batch_results) ==
    IF all_batch_results = <<>>
    THEN [text |-> "Result: No findings from any batch."]
    ELSE LET failed_batches == Len(ErrorDetails(all_batch_results))
             final_result == [AuditFindings |-> AggregatedFindings(all_batch_results)]
         IN  [ json |-> IF failed_batches > 0
                        THEN [BatchErrors |-> ErrorDetails(all_batch_results)]
                             @@ final_result
                        ELSE final_result ]

----------------------------------------------------------------------------
(* audit_utils.py: the wildcard resolvers *)

\* a str is the sequence of its characters, '' is <<>>
Uppers == <<"A", "B", "C", "D", "E", "F", "G", "H", "I", "J", "K", "L", "M", "N", "O", "P", "Q", "R", "S", "T", "U", "V", "W", "X", "Y", "Z">>
Lowers == <<"a", "b", "c", "d", "e", "f", "g", "h", "i", "j", "k", "l", "m", "n", "o", "p", "q", "r", "s", "t", "u", "v", "w", "x", "y", "z">>

\* the lower-case letter of each upper-case letter
ToLower == [c \in {Uppers[k] : k \in 1..Len(Uppers)} |->
              Lowers[CHOOSE k \in 1..Len(Uppers) : Uppers[k] = c]]

\* str.lower()
Lower(s) == [i \in 1..Len(s) |-> IF s[i] \in DOMAIN ToLower THEN ToLower[s[i]] ELSE s[i]]

RECURSIVE LStrip(_, _)
LStrip(s, ch) == IF s # <<>> /\ Head(s) = ch THEN LStrip(Tail(s), ch) ELSE s

RECURSIVE RStrip(_, _)
RStrip(s, ch) ==
    IF s # <<>> /\ s[Len(s)] = ch THEN RStrip(SubSeq(s, 1, Len(s) - 1), ch) ELSE s

\* s.strip(ch): the leading and the trailing occurrences of ch go
Strip(s, ch) == RStrip(LStrip(s, ch), ch)

\* sub in s, for two str
In(sub, s) == \E i \in 0..(Len(s) - Len(sub)) : SubSeq(s, i + 1, i + Len(sub)) = sub

\* ch in s, for a character
HasChar(ch, s) == \E i \in 1..Len(s) : s[i] = ch

\* dict.get(key, default)
Get(dict, key, default) == IF key \in DOMAIN dict THEN dict[key] ELSE default

\* {}
EmptyDict == [k \in {} |-> None]

RECURSIVE Flatten(_)
Flatten(seqs) == IF seqs = <<>> THEN <<>> ELSE Head(seqs) \o Flatten(Tail(seqs))

STAR == <<"*">>
STR_service == <<"s", "e", "r", "v", "i", "c", "e">>
STR_Service == <<"S", "e", "r", "v", "i", "c", "e">>
STR_slo == <<"s", "l", "o">>
STR_Unknown == <<"U", "n", "k", "n", "o", "w", "n">>

FUZZY_MATCH_THRESHOLD == 30
HIGH_CONFIDENCE_MATCH_THRESHOLD == 85

\* a pagination token is the sequence of its runs of characters of one kind
\* ("valid": the alphabet A-Za-z0-9+/=-_, "space", "other") with their lengths
Token(runs) == [runs |-> runs]

\* str.strip() of a token
StripSpaces(runs) ==
    LET keep == {i \in 1..Len(runs) : runs[i].kind # "space"}
    IN  IF keep = {} THEN <<>>
        ELSE SubSeq(runs, CHOOSE i \in keep : \A j \in keep : i <= j,
                          CHOOSE i \in keep : \A j \in keep : i >= j)

\* clean_pagination_token that extracts the 200 to 400 leading characters of
\* every token, corrupted or not
clean_pagination_token_AlwaysExtracts(next_token) ==
    IF next_token = None THEN None
    ELSE LET cleaned_token == StripSpaces(next_token.runs)
         IN  IF /\ cleaned_token # <<>>
                /\ cleaned_token[1].kind = "valid"
                /\ cleaned_token[1].n >= 200
             THEN Token(<<[kind |-> "valid", n |-> Min(cleaned_token[1].n, 400)]>>)
             ELSE None

clean_pagination_token(next_token) ==
    IF next_token = None THEN None
    ELSE LET cleaned_token == StripSpaces(next_token.runs)
         IN  IF Len(cleaned_token) = 1 /\ cleaned_token[1].kind = "valid"
             THEN Token(cleaned_token)
             ELSE IF /\ cleaned_token # <<>>
                     /\ cleaned_token[1].kind = "valid"
                     /\ cleaned_token[1].n >= 200
                  THEN Token(<<[kind |-> "valid", n |-> Min(cleaned_token[1].n, 400)]>>)
                  ELSE None

_create_service_target(service_name, environment) ==
    [ Type |-> STR_service,
      Data |-> [Service |-> [ Type |-> STR_Service,
                              Name |-> service_name,
                              Environment |-> environment ]] ]

\* target is a dict; a target that is not one is [py |-> its type]
IsDict(target) == "py" \notin DOMAIN target

\* the service name the first pass of expand_service_wildcard_patterns reads
\* from a service target: Data.Service.Name, or else the shorthand Service
TargetServiceName(target) ==
    LET service_data == Get(target, "Data", EmptyDict)
        service_info == Get(service_data, "Service", EmptyDict)
        service_name == Get(service_info, "Name", <<>>)
    IN  IF service_name # <<>> THEN service_name ELSE Get(target, "Service", <<>>)

IsServiceTarget(target) ==
    IsDict(target) /\ Lower(Get(target, "Type", <<>>)) = STR_service

\* the first pass: the targets passed through, the wildcard patterns and the
\* inexact names, each in the order of targets
ServiceFirstPass(targets) ==
    LET Named(t) == IsServiceTarget(t) /\ TargetServiceName(t) # <<>>
        Pair(ts) == [i \in 1..Len(ts) |-> [target |-> ts[i], name |-> TargetServiceName(ts[i])]]
    IN  [ expanded_targets |-> SelectSeq(targets, LAMBDA t : ~Named(t)),
          service_patterns |->
              Pair(SelectSeq(targets, LAMBDA t : Named(t) /\ HasChar("*", TargetServiceName(t)))),
          service_fuzzy_matches |->
              Pair(SelectSeq(targets, LAMBDA t : Named(t) /\ ~HasChar("*", TargetServiceName(t)))) ]

\* ListServicesParams that passes NextToken whether a cursor was given or not
ListServicesParams_AlwaysPassesToken(unix_start, unix_end, next_token, max_results) ==
    [ StartTime |-> FromTimestamp(unix_start),
      EndTime |-> FromTimestamp(unix_end),
      MaxResults |-> max_results,
      NextToken |-> next_token ]

\* the parameters of the one list_services call
ListServicesParams(unix_start, unix_end, next_token, max_results) ==
    LET list_services_params == [ StartTime |-> FromTimestamp(unix_start),
                                  EndTime |-> FromTimestamp(unix_end),
                                  MaxResults |-> max_results ]
    IN  IF next_token # None /\ next_token.runs # <<>>
        THEN [NextToken |-> next_token] @@ list_services_params
        ELSE list_services_params

\* SearchTerm that strips the leading '*' only
SearchTerm_KeepsTrailingStar(pattern) ==
    IF pattern # STAR THEN Lower(LStrip(pattern, "*")) ELSE <<>>

\* pattern.strip('*').lower() if pattern != '*' else ''
SearchTerm(pattern) ==
    IF pattern # STAR THEN Lower(Strip(pattern, "*")) ELSE <<>>

\* the wildcard test of the resolvers: search_term == '' or search_term in name.lower()
WildcardMatches(pattern, name) ==
    LET search_term == SearchTerm(pattern)
    IN  search_term = <<>> \/ In(search_term, Lower(name))

\* the filter of the wildcard loop: no name, 'Unknown', or not a Service
ServiceSkipped(service) ==
    LET service_attrs == Get(service, "KeyAttributes", EmptyDict)
        service_name == Get(service_attrs, "Name", <<>>)
        service_type == Get(service_attrs, "Type", <<>>)
    IN  service_name = <<>> \/ service_name = STR_Unknown \/ service_type # STR_Service

\* the targets one wildcard pattern adds for the page
ExpandServicePattern(pattern, services_batch) ==
    LET matching == SelectSeq(services_batch, LAMBDA service :
                        /\ ~ServiceSkipped(service)
                        /\ WildcardMatches(pattern, service.KeyAttributes.Name))
    IN  [ i \in 1..Len(matching) |->
            _create_service_target(matching[i].KeyAttributes.Name,
                                   Get(matching[i].KeyAttributes, "Environment", <<>>)) ]

\* calculate_name_similarity(name1, name2, 'service'): a score that the
\* oracle of the run fixes for each pair of names
calculate_name_similarity(name1, name2, oracle) == oracle[<<name1, name2>>]

\* SortByScore that leaves the matches in page order
SortByScore_Unsorted(matches) == matches

\* best_matches.sort(key=score, reverse=True): stable, highest score first
RECURSIVE SortByScore(_)
SortByScore(matches) ==
    IF matches = <<>> THEN <<>>
    ELSE LET top == CHOOSE i \in 1..Len(matches) :
                        /\ \A j \in 1..Len(matches) : matches[j].score <= matches[i].score
                        /\ \A j \in 1..(i - 1) : matches[j].score < matches[i].score
         IN  <<matches[top]>> \o
             SortByScore(SubSeq(matches, 1, top - 1) \o SubSeq(matches, top + 1, Len(matches)))

\* the targets one inexact name adds for the page
ExpandFuzzyMatch(original_target, inexact_name, services_batch, oracle) ==
    LET named == SelectSeq(services_batch, LAMBDA service :
                     Get(Get(service, "KeyAttributes", EmptyDict), "Name", <<>>) # <<>>)
        scored == [ i \in 1..Len(named) |->
                      [ name |-> named[i].KeyAttributes.Name,
                        environment |-> Get(named[i].KeyAttributes, "Environment", None),
                        score |-> calculate_name_similarity(inexact_name,
                                      named[i].KeyAttributes.Name, oracle) ] ]
        best_matches == SortByScore(SelectSeq(scored, LAMBDA m : m.score >= FUZZY_MATCH_THRESHOLD))
        matched_services ==
            IF best_matches[1].score >= HIGH_CONFIDENCE_MATCH_THRESHOLD
            THEN <<best_matches[1]>>
            ELSE PySlice(best_matches, 0, 3)
    IN  IF best_matches # <<>>
        THEN [ i \in 1..Len(matched_services) |->
                 _create_service_target(matched_services[i].name,
                                        matched_services[i].environment) ]
        ELSE <<original_target>>

\* service_names_in_batch
ServiceNamesInBatch(services_batch) ==
    [ i \in 1..Len(services_batch) |->
        Get(Get(services_batch[i], "KeyAttributes", EmptyDict), "Name", <<>>) ]

\* expand_service_wildcard_patterns from the return of list_services on, when
\* list_services has behaved as `client`: the tuple returned or the
\* ValueError raised
ExpandFromPage(first, client, oracle) ==
    IF client.kind = "raise"
    THEN [ raised |-> "ValueError",
           pattern_names |->
               [i \in 1..Len(first.service_patterns) |-> first.service_patterns[i].name]
               \o [i \in 1..Len(first.service_fuzzy_matches) |->
                       first.service_fuzzy_matches[i].name],
           error |-> client.message ]
    ELSE LET services_batch == Get(client.response, "ServiceSummaries", <<>>)
             returned_next_token ==
                 clean_pagination_token(Get(client.response, "NextToken", None))
             from_patterns ==
                 Flatten([ i \in 1..Len(first.service_patterns) |->
                             ExpandServicePattern(first.service_patterns[i].name,
                                                  services_batch) ])
             from_fuzzy ==
                 Flatten([ i \in 1..Len(first.service_fuzzy_matches) |->
                             ExpandFuzzyMatch(first.service_fuzzy_matches[i].target,
                                              first.service_fuzzy_matches[i].name,
                                              services_batch, oracle) ])
         IN  [ expanded_targets |-> first.expanded_targets \o from_patterns \o from_fuzzy,
               next_token |-> returned_next_token,
               service_names_in_batch |-> ServiceNamesInBatch(services_batch) ]

\* what expand_service_wildcard_patterns returns without a lookup
NoPatternsToExpand(first) ==
    [ expanded_targets |-> first.expanded_targets,
      next_token |-> None,
      service_names_in_batch |-> <<>> ]

\* a value of a target that is not a dict is [py |-> its type]
IsStr(value) == "py" \in DOMAIN value /\ value.py = "str"

IsSloTarget(target) ==
    IsDict(target) /\ Lower(Get(target, "Type", <<>>)) = STR_slo

\* target.get('Data', {}).get('Slo', {})
SloData(target) == Get(Get(target, "Data", EmptyDict), "Slo", EmptyDict)

\* SloFirstPass that passes a target whose 'Slo' is not a dict through
SloFirstPass_PassesMalformed(targets) ==
    LET slo_name(t) == IF IsDict(SloData(t)) THEN Get(SloData(t), "SloName", <<>>) ELSE <<>>
        IsPattern(t) == IsSloTarget(t) /\ HasChar("*", slo_name(t))
        patterns == SelectSeq(targets, IsPattern)
    IN  [ expanded_targets |-> SelectSeq(targets, LAMBDA t : ~IsPattern(t)),
          wildcard_patterns |->
              [i \in 1..Len(patterns) |->
                  [target |-> patterns[i], name |-> slo_name(patterns[i])]] ]

\* the first pass of expand_slo_wildcard_patterns: the ValueError of the
\* first SLO target whose 'Slo' is not a dict, or else the targets passed
\* through and the wildcard patterns, each in the order of targets
SloFirstPass(targets) ==
    LET malformed == SelectSeq(targets, LAMBDA t : IsSloTarget(t) /\ ~IsDict(SloData(t)))
        slo_name(t) == Get(SloData(t), "SloName", <<>>)
        IsPattern(t) == IsSloTarget(t) /\ HasChar("*", slo_name(t))
        patterns == SelectSeq(targets, IsPattern)
    IN  IF malformed # <<>>
        THEN [ raised |-> "ValueError",
               error |-> IF IsStr(SloData(Head(malformed)))
                         THEN "Invalid SLO target format: 'Slo' is a string"
                         ELSE "Invalid SLO target format: 'Slo' must be a dictionary" ]
        ELSE [ expanded_targets |-> SelectSeq(targets, LAMBDA t : ~IsPattern(t)),
               wildcard_patterns |->
                   [i \in 1..Len(patterns) |->
                       [target |-> patterns[i], name |-> slo_name(patterns[i])]] ]

\* the parameters of the one list_service_level_objectives call
ListSlosParams(next_token, max_results) ==
    LET list_slos_params == [MaxResults |-> max_results, IncludeLinkedAccounts |-> TRUE]
    IN  IF next_token # None /\ next_token.runs # <<>>
        THEN [NextToken |-> next_token] @@ list_slos_params
        ELSE list_slos_params

\* the targets one SLO pattern adds for the page
ExpandSloPattern(pattern, slos_batch) ==
    LET matching == SelectSeq(slos_batch, LAMBDA slo :
                        WildcardMatches(pattern, Get(slo, "Name", <<>>)))
    IN  [ i \in 1..Len(matching) |->
            [ Type |-> STR_slo,
              Data |-> [Slo |-> [ SloName |-> Get(matching[i], "Name", <<>>),
                                  SloArn |-> Get(matching[i], "Arn", <<>>) ]] ] ]

\* expand_slo_wildcard_patterns from the return of
\* list_service_level_objectives on, when the call has behaved as `client`
ExpandSlosFromPage(first, client) ==
    IF client.kind = "raise"
    THEN [raised |-> "ValueError", error |-> client.message]
    ELSE LET slos_batch == Get(client.response, "SloSummaries", <<>>)
         IN  [ expanded_targets |->
                   first.expanded_targets \o
                   Flatten([ i \in 1..Len(first.wildcard_patterns) |->
                               ExpandSloPattern(first.wildcard_patterns[i].name, slos_batch) ]),
               next_token |-> clean_pagination_token(Get(client.response, "NextToken", None)),
               slo_names_in_batch |->
                   [i \in 1..Len(slos_batch) |-> Get(slos_batch[i], "Name", <<>>)] ]

STR_service_operation ==
    <<"s", "e", "r", "v", "i", "c", "e", "_", "o", "p", "e", "r", "a", "t", "i", "o", "n">>
STR_Latency == <<"L", "a", "t", "e", "n", "c", "y">>
STR_Availability == <<"A", "v", "a", "i", "l", "a", "b", "i", "l", "i", "t", "y">>
STR_Fault == <<"F", "a", "u", "l", "t">>

IsServiceOperationTarget(target) ==
    IsDict(target) /\ Lower(Get(target, "Type", <<>>)) = STR_service_operation

\* target.get('Data', {}).get('ServiceOperation', {})
ServiceOperationData(target) ==
    Get(Get(target, "Data", EmptyDict), "ServiceOperation", EmptyDict)

\* ServiceOperationFirstPass that takes every service-operation target for a
\* pattern, with or without a '*'
ServiceOperationFirstPass_ExpandsEverything(targets) ==
    LET service_name(t) ==
            Get(Get(ServiceOperationData(t), "Service", EmptyDict), "Name", <<>>)
        operation(t) == Get(ServiceOperationData(t), "Operation", <<>>)
        IsPattern(t) == IsServiceOperationTarget(t)
        patterns == SelectSeq(targets, IsPattern)
    IN  [ expanded_targets |-> SelectSeq(targets, LAMBDA t : ~IsPattern(t)),
          wildcard_patterns |->
              [i \in 1..Len(patterns) |->
                  [ target |-> patterns[i],
                    service_pattern |-> service_name(patterns[i]),
                    operation_pattern |-> operation(patterns[i]) ]] ]

\* the first pass of expand_service_operation_wildcard_patterns: the targets
\* passed through and the patterns (a '*' in the service name or in the
\* operation), each in the order of targets
ServiceOperationFirstPass(targets) ==
    LET service_name(t) ==
            Get(Get(ServiceOperationData(t), "Service", EmptyDict), "Name", <<>>)
        operation(t) == Get(ServiceOperationData(t), "Operation", <<>>)
        IsPattern(t) == /\ IsServiceOperationTarget(t)
                        /\ (HasChar("*", service_name(t)) \/ HasChar("*", operation(t)))
        patterns == SelectSeq(targets, IsPattern)
    IN  [ expanded_targets |-> SelectSeq(targets, LAMBDA t : ~IsPattern(t)),
          wildcard_patterns |->
              [i \in 1..Len(patterns) |->
                  [ target |-> patterns[i],
                    service_pattern |-> service_name(patterns[i]),
                    operation_pattern |-> operation(patterns[i]) ]] ]

\* the services of the page that one service pattern selects
MatchingServices(service_pattern, services_batch) ==
    SelectSeq(services_batch, LAMBDA service :
        /\ ~ServiceSkipped(service)
        /\ IF ~HasChar("*", service_pattern)
           THEN service.KeyAttributes.Name = service_pattern
           ELSE WildcardMatches(service_pattern, service.KeyAttributes.Name))

\* the parameters of the list_service_operations call for one service
ListServiceOperationsParams(unix_start, unix_end, service_attrs) ==
    [ StartTime |-> FromTimestamp(unix_start),
      EndTime |-> FromTimestamp(unix_end),
      KeyAttributes |-> service_attrs,
      MaxResults |-> 100 ]

OperationMatches(operation_pattern, operation_name) ==
    IF ~HasChar("*", operation_pattern)
    THEN operation_name = operation_pattern
    ELSE WildcardMatches(operation_pattern, operation_name)

\* HasMetricType that takes 'Availability' and 'Fault' for one another
HasMetricType_EitherWay(metric_refs, metric_type) ==
    \E i \in 1..Len(metric_refs) :
        LET ref_type == Get(metric_refs[i], "MetricType", <<>>)
        IN  \/ ref_type = metric_type
            \/ {metric_type, ref_type} = {STR_Availability, STR_Fault}

\* any(ref MetricType == metric_type, or 'Fault' for 'Availability')
HasMetricType(metric_refs, metric_type) ==
    \E i \in 1..Len(metric_refs) :
        \/ Get(metric_refs[i], "MetricType", <<>>) = metric_type
        \/ /\ metric_type = STR_Availability
           /\ Get(metric_refs[i], "MetricType", <<>>) = STR_Fault

\* the targets the operations of one service add for one pattern
ExpandOperations(pattern, service, operations) ==
    LET service_attrs == Get(service, "KeyAttributes", EmptyDict)
        metric_type == Get(ServiceOperationData(pattern.target), "MetricType", STR_Latency)
        matching == SelectSeq(operations, LAMBDA operation :
                        /\ OperationMatches(pattern.operation_pattern,
                                            Get(operation, "Name", <<>>))
                        /\ HasMetricType(Get(operation, "MetricReferences", <<>>),
                                         metric_type))
        service_target == _create_service_target(Get(service_attrs, "Name", <<>>),
                                                 Get(service_attrs, "Environment", <<>>))
    IN  [ i \in 1..Len(matching) |->
            [ Type |-> STR_service_operation,
              Data |-> [ServiceOperation |->
                          [ Service |-> service_target.Data.Service,
                            Operation |-> Get(matching[i], "Name", <<>>),
                            MetricType |-> metric_type ]] ] ]

\* the list_service_operations calls that the page asks for, in order: one
\* per pattern and service of the page that the pattern selects
OperationLookups(first, services_batch) ==
    Flatten([ i \in 1..Len(first.wildcard_patterns) |->
                LET matching == MatchingServices(first.wildcard_patterns[i].service_pattern,
                                                 services_batch)
                IN  [k \in 1..Len(matching) |-> [pattern |-> i, service |-> matching[k]]] ])

----------------------------------------------------------------------------
(* batch_processing_utils.py: format_batch_result, and batch_tools.py *)

\* format_batch_result(batch_result, session): the text returned, as its
\* leading words and the values formatted into it; Continue holds the session
\* id of the continuation instruction, if the text has one
format_batch_result(batch_result, session) ==
    LET batch_index == batch_result.batch_index
        total_batches == batch_result.total_batches
    IN  IF Get(batch_result, "error", "") # ""
        THEN [ starts |-> "Batch failed", batch_index |-> batch_index,
               total_batches |-> total_batches, error |-> batch_result.error,
               Continue |-> {} ]
        ELSE LET findings_count == Len(Get(batch_result, "findings", <<>>))
             IN  IF findings_count = 0
                 THEN [ starts |-> "Batch healthy", batch_index |-> batch_index,
                        total_batches |-> total_batches,
                        targets_in_batch |-> batch_result.targets_in_batch,
                        Continue |-> IF batch_index < total_batches
                                     THEN {session.session_id} ELSE {} ]
                 ELSE [ starts |-> "Batch findings", batch_index |-> batch_index,
                        total_batches |-> total_batches,
                        findings_count |-> findings_count,
                        findings_json |-> batch_result.findings,
                        Continue |-> {} ]

\* f'Error: {message}'
ErrorText(message) == [starts |-> "Error: ", message |-> message, Continue |-> {}]

\* continue_audit_batch(batch_session_id): the store after the call, the text
\* returned and the list_audit_findings calls issued. batch_session_id is
\* [py |-> "str", value |-> the id] or a value of another type, for which
\* the lookup in the dict of sessions raises TypeError
continue_audit_batch(store, batch_session_id, client, now) ==
    IF batch_session_id.py # "str"
    THEN [ store |-> store, calls |-> <<>>, result |-> None,
           returned |-> ErrorText("unhashable type: 'list'") ]
    ELSE LET r == process_next_batch(store, batch_session_id.value, client, now)
             batch_result == r.result
             session == get_batch_session(r.store, batch_session_id.value)
         IN  [ store |-> r.store, calls |-> r.calls, result |-> batch_result,
               returned |->
                   IF Get(batch_result, "error", "") # ""
                   THEN ErrorText(batch_result.error)
                   ELSE IF session = None
                   THEN ErrorText("Session not found or expired")
                   ELSE format_batch_result(batch_result, session) ]

----------------------------------------------------------------------------
(* The session store driven by serialized calls *)

NoOp == [op |-> "none"]
NoPlan == [pc |-> "unused"]
NoAudit == [pc |-> "unused"]
NoCalls == [pc |-> "unused"]
NoResolve == [pc |-> "unused"]

\* the variables of the other parts of the program at rest
Unused(names) ==
    /\ "sessions" \in names => sessions = EmptyStore /\ nextId = 0
    /\ "last" \in names => last = NoOp
    /\ "plan" \in names => plan = NoPlan
    /\ "audit" \in names => audit = NoAudit
    /\ "active" \in names => active = EmptyStore
    /\ "inflight" \in names => inflight = NoCalls
    /\ "resolve" \in names => resolve = NoResolve

SessionIds == 1..MaxSessions

RECURSIVE SumTargets(_, _)
SumTargets(store, ids) ==
    IF ids = {} THEN 0
    ELSE LET id == CHOOSE x \in ids : TRUE
         IN  Len(store[id].targets) + SumTargets(store, ids \ {id})

\* the targets held by the sessions of the store
StoredTargets == SumTargets(sessions, DOMAIN sessions)

Init ==
    /\ sessions = EmptyStore
    /\ nextId = 0
    /\ clock = 0
    /\ last = NoOp
    /\ plan = NoPlan
    /\ audit = NoAudit
    /\ Unused({"active", "inflight", "resolve"})

CreateBatchSession(n, input_obj, batch_size, auto_complete) ==
    /\ nextId < MaxSessions
    /\ StoredTargets + n <= MaxTargets
    /\ nextId' = nextId + 1
    /\ sessions' = create_batch_session(sessions, nextId + 1, Targets(n), input_obj,
                                        batch_size, auto_complete, clock)
    /\ last' = [ op |-> "create_batch_session", sid |-> nextId + 1,
                 targets |-> Targets(n), input_obj |-> input_obj,
                 batch_size |-> batch_size, auto_complete |-> auto_complete ]
    /\ UNCHANGED <<clock, plan, audit, active, inflight, resolve>>

ProcessNextBatch(session_id, client) ==
    LET r == process_next_batch(sessions, session_id, client, clock)
    IN  /\ sessions' = r.store
        /\ last' = [ op |-> "process_next_batch", sid |-> session_id,
                     client |-> IF r.calls = <<>> THEN None ELSE client,
                     result |-> r.result, calls |-> r.calls ]
        /\ UNCHANGED <<nextId, clock, plan, audit, active, inflight, resolve>>

UpdateBatchSessionActivity(session_id) ==
    /\ sessions' = update_batch_session_activity(sessions, session_id, clock)
    /\ last' = [op |-> "update_batch_session_activity", sid |-> session_id]
    /\ UNCHANGED <<nextId, clock, plan, audit, active, inflight, resolve>>

CleanupBatchSessions ==
    /\ sessions' = cleanup_batch_sessions(sessions)
    /\ last' = [op |-> "cleanup_batch_sessions"]
    /\ UNCHANGED <<nextId, clock, plan, audit, active, inflight, resolve>>

Next ==
    \/ \E n \in 0..MaxTargets, input_obj \in InputObjs, batch_size \in 1..MaxBatchSize,
          auto_complete \in {{}, {TRUE}, {FALSE}} :
            CreateBatchSession(n, input_obj, batch_size, auto_complete)
    \/ \E session_id \in SessionIds, client \in ApiBehaviours :
            ProcessNextBatch(session_id, client)
    \/ \E session_id \in SessionIds : UpdateBatchSessionActivity(session_id)
    \/ CleanupBatchSessions

Spec == Init /\ [][Next]_vars

----------------------------------------------------------------------------
(* The session store driven through continue_audit_batch *)

\* what a list_audit_findings call may do: as ApiBehaviours, and raise an
\* exception whose str() is empty, as TimeoutError() is
ToolApiBehaviours == ApiBehaviours \cup {[kind |-> "raise", message |-> ""]}

\* the arguments of continue_audit_batch: the ids of sessions, and a list
ToolSessionIds == {[py |-> "str", value |-> id] : id \in SessionIds} \cup {[py |-> "list"]}

ContinueAuditBatch(batch_session_id, client) ==
    LET r == continue_audit_batch(sessions, batch_session_id, client, clock)
    IN  /\ sessions' = r.store
        /\ last' = [ op |-> "continue_audit_batch", batch_session_id |-> batch_session_id,
                     client |-> IF r.calls = <<>> THEN None ELSE client,
                     result |-> r.result, returned |-> r.returned, calls |-> r.calls ]
        /\ UNCHANGED <<nextId, clock, plan, audit, active, inflight, resolve>>

NextTool ==
    \/ \E n \in 0..MaxTargets, input_obj \in InputObjs, batch_size \in 1..MaxBatchSize,
          auto_complete \in {{}, {TRUE}, {FALSE}} :
            CreateBatchSession(n, input_obj, batch_size, auto_complete)
    \/ \E batch_session_id \in ToolSessionIds, client \in ToolApiBehaviours :
            ContinueAuditBatch(batch_session_id, client)

SpecTool == Init /\ [][NextTool]_vars

----------------------------------------------------------------------------
(* The session store with time passing between the calls *)

\* one input object and two behaviours of list_audit_findings are enough here
TimedBehaviours ==
    { [kind |-> "ok", response |-> [AuditFindings |-> <<>>]],
      [kind |-> "raise", message |-> "API error"] }

\* datetime.now(timezone.utc) moves on
Tick ==
    /\ clock < MaxClock
    /\ clock' = clock + 1
    /\ UNCHANGED <<sessions, nextId, last, plan, audit, active, inflight, resolve>>

NextTimed ==
    \/ \E n \in 0..MaxTargets, batch_size \in 1..MaxBatchSize :
            CreateBatchSession(n, [StartTime |-> 100, EndTime |-> 200], batch_size, {})
    \/ \E session_id \in SessionIds, client \in TimedBehaviours :
            ProcessNextBatch(session_id, client)
    \/ \E session_id \in SessionIds : UpdateBatchSessionActivity(session_id)
    \/ CleanupBatchSessions
    \/ Tick

SpecTimed == Init /\ [][NextTimed]_vars

----------------------------------------------------------------------------
(* The state store of batch_state.py, with time passing between the calls *)

\* the values of time.time(): a second or the timeout passes between calls
ClockValues == {b * BATCH_SESSION_TIMEOUT + a : b \in 0..MaxClock, a \in 0..1}

\* the target counts of the states stored: no chunk, one chunk, two chunks
StateTargetCounts == {0, 1, DEFAULT_BATCH_SIZE + 1}

InitState ==
    /\ active = EmptyStore
    /\ clock = 0
    /\ last = NoOp
    /\ Unused({"sessions", "plan", "audit", "inflight", "resolve"})

StoreBatchState(session_id, n) ==
    /\ active' = store_batch_state(active, session_id,
                     BatchProcessingState([AuditTargets |-> Targets(n)], clock))
    /\ last' = [op |-> "store_batch_state", sid |-> session_id]
    /\ UNCHANGED <<sessions, nextId, clock, plan, audit, inflight, resolve>>

GetBatchState(session_id) ==
    LET r == get_batch_state(active, session_id, clock)
    IN  /\ active' = r.store
        /\ last' = [op |-> "get_batch_state", sid |-> session_id, result |-> r.result]
        /\ UNCHANGED <<sessions, nextId, clock, plan, audit, inflight, resolve>>

CleanupSession(session_id) ==
    LET r == cleanup_session(active, session_id)
    IN  /\ active' = r.store
        /\ last' = [op |-> "cleanup_session", sid |-> session_id, result |-> r.result]
        /\ UNCHANGED <<sessions, nextId, clock, plan, audit, inflight, resolve>>

CleanupExpiredSessions ==
    LET r == cleanup_expired_sessions(active, clock)
    IN  /\ active' = r.store
        /\ last' = [op |-> "cleanup_expired_sessions", result |-> r.result]
        /\ UNCHANGED <<sessions, nextId, clock, plan, audit, inflight, resolve>>

GetActiveSessionsCount ==
    LET r == get_active_sessions_count(active, clock)
    IN  /\ active' = r.store
        /\ last' = [op |-> "get_active_sessions_count", result |-> r.result]
        /\ UNCHANGED <<sessions, nextId, clock, plan, audit, inflight, resolve>>

TimePasses(delta) ==
    /\ clock + delta \in ClockValues
    /\ clock' = clock + delta
    /\ UNCHANGED <<sessions, nextId, last, plan, audit, active, inflight, resolve>>

NextState ==
    \/ \E session_id \in SessionIds, n \in StateTargetCounts : StoreBatchState(session_id, n)
    \/ \E session_id \in SessionIds : GetBatchState(session_id)
    \/ \E session_id \in SessionIds : CleanupSession(session_id)
    \/ CleanupExpiredSessions
    \/ GetActiveSessionsCount
    \/ \E delta \in {1, BATCH_SESSION_TIMEOUT} : TimePasses(delta)

SpecState == InitState /\ [][NextState]_vars

----------------------------------------------------------------------------
(* process_next_batch calls that overlap: a call gives way to other callers
   while it waits for list_audit_findings *)

Callers == 1..MaxCallers

Idle == [pc |-> "idle"]

\* the callers with a call on session_id waiting for list_audit_findings
InFlightOn(session_id) ==
    {c \in Callers : inflight.calls[c].pc = "calling" /\ inflight.calls[c].sid = session_id}

InitRace ==
    /\ sessions = EmptyStore
    /\ nextId = 0
    /\ clock = 0
    /\ last = NoOp
    /\ inflight = [calls |-> [c \in Callers |-> Idle], overlapped |-> {}]
    /\ Unused({"plan", "audit", "active", "resolve"})

\* lines 143-161 of process_next_batch, for the first caller that has no call
\* under way (callers are interchangeable); overlapped records
\* the sessions on which a call was issued while another one was waiting
PnbBegin(caller, session_id) ==
    /\ inflight.calls[caller] = Idle
    /\ \A c \in Callers : c < caller => inflight.calls[c] # Idle
    /\ LET b == BeginBatch(sessions, session_id, clock)
       IN  /\ sessions' = b.store
           /\ IF b.done
              THEN /\ last' = [ op |-> "process_next_batch", sid |-> session_id,
                                client |-> None,
                                result |-> b.result, calls |-> b.calls ]
                   /\ UNCHANGED inflight
              ELSE /\ last' = [ op |-> "list_audit_findings", sid |-> session_id,
                                calls |-> <<b.call.batch_input>> ]
                   /\ inflight' =
                        [ calls |-> [inflight.calls EXCEPT ![caller] = b.call],
                          overlapped |-> IF InFlightOn(session_id) # {}
                                         THEN inflight.overlapped \cup {session_id}
                                         ELSE inflight.overlapped ]
    /\ UNCHANGED <<nextId, clock, plan, audit, active, resolve>>

\* lines 162-179 of process_next_batch, when list_audit_findings has behaved
\* as `client`
PnbEnd(caller, client) ==
    /\ inflight.calls[caller].pc = "calling"
    /\ LET call == inflight.calls[caller]
           f == FinishBatch(sessions, call, client)
       IN  /\ sessions' = f.store
           /\ last' = [ op |-> "process_next_batch", sid |-> call.sid,
                        client |-> client,
                        result |-> f.result, calls |-> <<call.batch_input>> ]
    /\ inflight' = [inflight EXCEPT !.calls[caller] = Idle]
    /\ UNCHANGED <<nextId, clock, plan, audit, active, resolve>>

NextRace ==
    \/ \E n \in 1..MaxTargets :
            CreateBatchSession(n, [StartTime |-> 100, EndTime |-> 200], 1, {})
    \/ \E caller \in Callers, session_id \in SessionIds : PnbBegin(caller, session_id)
    \/ \E caller \in Callers, client \in TimedBehaviours : PnbEnd(caller, client)
    \/ CleanupBatchSessions

SpecRace == InitRace /\ [][NextRace]_vars

----------------------------------------------------------------------------
(* One call of expand_service_wildcard_patterns *)

STR_payment_a == <<"p", "a", "y", "m", "e", "n", "t", "-", "a">>
STR_order_b == <<"o", "r", "d", "e", "r", "-", "b">>
STR_PaySvc == <<"P", "a", "y", "S", "v", "c">>
STR_pay_remote == <<"p", "a", "y", "-", "r", "e", "m", "o", "t", "e">>
STR_pay == <<"*", "p", "a", "y", "*">>
STR_pay_svc == <<"p", "a", "y", "*", "s", "v", "c">>
STR_payment == <<"p", "a", "y", "m", "e", "n", "t">>
STR_prod == <<"p", "r", "o", "d">>
STR_staging == <<"s", "t", "g">>
STR_RemoteService == <<"R", "e", "m", "o", "t", "e">>

ServiceSummary(name, type, environment) ==
    [KeyAttributes |-> [Name |-> name, Type |-> type, Environment |-> environment]]

\* the services list_services may return
ServicePool ==
    { ServiceSummary(STR_payment_a, STR_Service, STR_prod),
      ServiceSummary(STR_order_b, STR_Service, STR_staging),
      ServiceSummary(STR_Unknown, STR_Service, STR_prod),
      ServiceSummary(STR_PaySvc, STR_Service, STR_prod),
      ServiceSummary(STR_pay_remote, STR_RemoteService, STR_prod) }

\* the targets of a request: service targets with a wildcard pattern in the
\* full format, one with an inexact name in the shorthand format, and a
\* target of another kind
ServiceTarget(name) == [Type |-> STR_service, Data |-> [Service |-> [Type |-> STR_Service, Name |-> name]]]

WildcardTargetPool ==
    { ServiceTarget(STAR), ServiceTarget(STR_pay), ServiceTarget(STR_pay_svc),
      [Type |-> STR_slo, Data |-> [Slo |-> [SloName |-> STAR]]] }

ResolveTargetPool ==
    WildcardTargetPool \cup {[Type |-> STR_Service, Service |-> STR_payment]}

SeqsUpTo(S, n) == UNION { [1..k -> S] : k \in 0..n }

ValidToken == Token(<<[kind |-> "valid", n |-> 16]>>)

\* what a list_services call may do: return a page of at most n entities,
\* with or without a NextToken, or raise
ListServicesPages(n) ==
    { [kind |-> "ok", response |-> [ServiceSummaries |-> page]] :
          page \in SeqsUpTo(ServicePool, n) }
    \cup { [kind |-> "ok", response |-> [ServiceSummaries |-> page, NextToken |-> ValidToken]] :
          page \in SeqsUpTo(ServicePool, n) }
    \cup { [kind |-> "raise", message |-> m] : m \in ErrorMessages }

ListServicesBehaviours == ListServicesPages(MaxPageSize)

\* the scores calculate_name_similarity may give
MAX_SCORE == 100
ScoreValues ==
    { FUZZY_MATCH_THRESHOLD - 1, FUZZY_MATCH_THRESHOLD,
      HIGH_CONFIDENCE_MATCH_THRESHOLD - 1, HIGH_CONFIDENCE_MATCH_THRESHOLD }

\* the score functions for the inexact names of a request and the names of a
\* page: names equal up to case score the maximum
SimilarityOracles(first, client) ==
    LET inexact == {first.service_fuzzy_matches[i].name :
                        i \in 1..Len(first.service_fuzzy_matches)}
        names == IF client.kind = "ok"
                 THEN {ServiceNamesInBatch(client.response.ServiceSummaries)[i] :
                           i \in 1..Len(client.response.ServiceSummaries)}
                 ELSE {}
    IN  { f \in [inexact \X names -> ScoreValues \cup {MAX_SCORE}] :
            \A p \in inexact \X names : (f[p] = MAX_SCORE) <=> (Lower(p[1]) = Lower(p[2])) }

\* a request of at most n targets of the pool
ResolveRequests(pool, n) ==
    { [ fn |-> "expand_service_wildcard_patterns",
        pc |-> "start", targets |-> targets, next_token |-> next_token,
        unix_start |-> 100, unix_end |-> 200, max_results |-> 5 ] :
      targets \in SeqsUpTo(pool, n), next_token \in {None, ValidToken} }

\* requests with wildcard patterns only
InitResolve ==
    /\ clock = 0
    /\ resolve \in ResolveRequests(WildcardTargetPool, MaxResolveTargets)
    /\ Unused({"sessions", "last", "plan", "audit", "active", "inflight"})

\* expand_service_wildcard_patterns up to the list_services call, or to its
\* return when there is nothing to look up
ExpandServiceWildcardPatterns ==
    /\ resolve.pc = "start"
    /\ LET first == ServiceFirstPass(resolve.targets)
       IN  IF first.service_patterns # <<>> \/ first.service_fuzzy_matches # <<>>
           THEN resolve' = [ pc |-> "list_services", calls |->
                               <<ListServicesParams(resolve.unix_start, resolve.unix_end,
                                                    resolve.next_token, resolve.max_results)>> ]
                           @@ resolve
           ELSE resolve' = [ pc |-> "returned", calls |-> <<>>,
                             outcome |-> NoPatternsToExpand(first) ] @@ resolve
    /\ UNCHANGED <<sessions, nextId, clock, last, plan, audit, active, inflight>>

\* expand_service_wildcard_patterns from the return of list_services on
ListServicesDone(client) ==
    /\ resolve.pc = "list_services"
    /\ LET first == ServiceFirstPass(resolve.targets)
       IN  \E oracle \in SimilarityOracles(first, client) :
              LET outcome == ExpandFromPage(first, client, oracle)
              IN  resolve' = [ pc |-> IF "raised" \in DOMAIN outcome
                                      THEN "raised" ELSE "returned",
                               response |-> client,
                               oracle |-> oracle,
                               outcome |-> outcome ] @@ resolve
    /\ UNCHANGED <<sessions, nextId, clock, last, plan, audit, active, inflight>>

NextResolve ==
    \/ ExpandServiceWildcardPatterns
    \/ \E client \in ListServicesBehaviours : ListServicesDone(client)

SpecResolve == InitResolve /\ [][NextResolve]_vars

\* requests with an inexact name among the targets
InitFuzzy ==
    /\ clock = 0
    /\ resolve \in ResolveRequests(ResolveTargetPool, MaxFuzzyTargets)
    /\ Unused({"sessions", "last", "plan", "audit", "active", "inflight"})

\* the entities of the pages scored against an inexact name, in the order
\* the backend lists them: those of ServicePool and one without a name
FuzzyServices ==
    << ServiceSummary(STR_payment_a, STR_Service, STR_prod),
       ServiceSummary(STR_Unknown, STR_Service, STR_prod),
       ServiceSummary(STR_order_b, STR_Service, STR_staging),
       ServiceSummary(<<>>, STR_Service, STR_prod),
       ServiceSummary(STR_pay_remote, STR_RemoteService, STR_prod),
       ServiceSummary(STR_PaySvc, STR_Service, STR_prod) >>

\* the elements of seq at the positions of S, in order
Pick(seq, S) ==
    LET F[i \in 0..Len(seq)] ==
            IF i = 0 THEN <<>>
            ELSE IF i \in S THEN Append(F[i - 1], seq[i]) ELSE F[i - 1]
    IN  F[Len(seq)]

\* what list_services may do there: return a page of at most
\* MaxFuzzyPageSize of these entities, with or without a NextToken, or raise
FuzzyPages ==
    LET pages == { Pick(FuzzyServices, S) :
                     S \in {T \in SUBSET (1..Len(FuzzyServices)) :
                                Cardinality(T) <= MaxFuzzyPageSize} }
    IN  { [kind |-> "ok", response |-> [ServiceSummaries |-> page]] : page \in pages }
        \cup { [kind |-> "ok", response |-> [ServiceSummaries |-> page, NextToken |-> ValidToken]] :
                  page \in pages }
        \cup { [kind |-> "raise", message |-> msg] : msg \in ErrorMessages }

NextFuzzy ==
    \/ ExpandServiceWildcardPatterns
    \/ \E client \in FuzzyPages : ListServicesDone(client)

SpecFuzzy == InitFuzzy /\ [][NextFuzzy]_vars


----------------------------------------------------------------------------
(* One call of expand_slo_wildcard_patterns *)

STR_Pay_SLO == <<"P", "a", "y", "-", "S", "L", "O">>
STR_order_slo == <<"o", "r", "d", "e", "r", "-", "s", "l", "o">>
STR_arn_pay == <<"a", "r", "n", ":", "p">>
STR_arn_order == <<"a", "r", "n", ":", "o">>

\* the SLOs the backend may list, in its order: one has an empty Name
SloEntries ==
    << [Name |-> STR_Pay_SLO, Arn |-> STR_arn_pay],
       [Name |-> <<>>, Arn |-> <<>>],
       [Name |-> STR_order_slo, Arn |-> STR_arn_order] >>

SloTarget(name) == [Type |-> STR_slo, Data |-> [Slo |-> [SloName |-> name]]]

\* the targets of a request: SLO targets with a wildcard pattern, a concrete
\* one with its Arn, two whose 'Slo' is not a dict (a str, a list) and a
\* target of another kind
SloTargetPool ==
    { SloTarget(STAR), SloTarget(STR_pay),
      [Type |-> STR_slo, Data |-> [Slo |-> [SloName |-> STR_order_slo, SloArn |-> STR_arn_order]]],
      [Type |-> STR_slo, Data |-> [Slo |-> [py |-> "str", value |-> STR_order_slo]]],
      [Type |-> STR_slo, Data |-> [Slo |-> [py |-> "list"]]],
      ServiceTarget(STAR) }

\* what list_service_level_objectives may do: return some of the SLOs, with
\* or without a NextToken, or raise
SloPages ==
    LET pages == {Pick(SloEntries, S) : S \in SUBSET (1..Len(SloEntries))}
    IN  { [kind |-> "ok", response |-> [SloSummaries |-> page]] : page \in pages }
        \cup { [kind |-> "ok", response |-> [SloSummaries |-> page, NextToken |-> ValidToken]] :
                  page \in pages }
        \cup { [kind |-> "raise", message |-> msg] : msg \in ErrorMessages }

InitSlo ==
    /\ clock = 0
    /\ resolve \in { [ fn |-> "expand_slo_wildcard_patterns",
                       pc |-> "slo_start", targets |-> targets, next_token |-> next_token,
                       max_results |-> 5 ] :
                     targets \in SeqsUpTo(SloTargetPool, MaxSloTargets),
                     next_token \in {None, ValidToken} }
    /\ Unused({"sessions", "last", "plan", "audit", "active", "inflight"})

\* expand_slo_wildcard_patterns up to the list_service_level_objectives
\* call, or to its end when the first pass raises or finds no pattern
ExpandSloWildcardPatterns ==
    /\ resolve.pc = "slo_start"
    /\ LET first == SloFirstPass(resolve.targets)
       IN  IF "raised" \in DOMAIN first
           THEN resolve' = [pc |-> "raised", calls |-> <<>>, outcome |-> first] @@ resolve
           ELSE IF first.wildcard_patterns # <<>>
           THEN resolve' = [ pc |-> "list_service_level_objectives",
                             calls |-> <<ListSlosParams(resolve.next_token,
                                                        resolve.max_results)>> ] @@ resolve
           ELSE resolve' = [ pc |-> "returned", calls |-> <<>>,
                             outcome |-> [ expanded_targets |-> first.expanded_targets,
                                           next_token |-> None,
                                           slo_names_in_batch |-> <<>> ] ] @@ resolve
    /\ UNCHANGED <<sessions, nextId, clock, last, plan, audit, active, inflight>>

\* expand_slo_wildcard_patterns from the return of
\* list_service_level_objectives on
ListSlosDone(client) ==
    /\ resolve.pc = "list_service_level_objectives"
    /\ LET outcome == ExpandSlosFromPage(SloFirstPass(resolve.targets), client)
       IN  resolve' = [ pc |-> IF "raised" \in DOMAIN outcome THEN "raised" ELSE "returned",
                        response |-> client,
                        outcome |-> outcome ] @@ resolve
    /\ UNCHANGED <<sessions, nextId, clock, last, plan, audit, active, inflight>>

NextSlo ==
    \/ ExpandSloWildcardPatterns
    \/ \E client \in SloPages : ListSlosDone(client)

SpecSlo == InitSlo /\ [][NextSlo]_vars

----------------------------------------------------------------------------
(* One call of expand_service_operation_wildcard_patterns; the state is the
   position between the lookup calls *)

STR_GetItem == <<"G", "e", "t", "I", "t", "e", "m">>
STR_PutItem == <<"P", "u", "t", "I", "t", "e", "m">>
STR_get == <<"*", "g", "e", "t", "*">>

ServiceOperationTarget(service_name, operation, fields) ==
    [ Type |-> STR_service_operation,
      Data |-> [ServiceOperation |->
                  fields @@ [Service |-> [Type |-> STR_Service, Name |-> service_name],
                             Operation |-> operation]] ]

\* the targets of a request: every operation of every service for
\* 'Availability', the '*get*' operations of 'payment-a' for the default
\* metric kind, the operation 'GetItem' of the '*pay*' services for 'Fault',
\* a concrete target and a target of another kind
ServiceOperationTargetPool ==
    { ServiceOperationTarget(STAR, STAR, [MetricType |-> STR_Availability]),
      ServiceOperationTarget(STR_payment_a, STR_get, EmptyDict),
      ServiceOperationTarget(STR_pay, STR_GetItem, [MetricType |-> STR_Fault]),
      ServiceOperationTarget(STR_order_b, STR_PutItem, [MetricType |-> STR_Latency]),
      ServiceTarget(STAR) }

\* the services the backend may list, in its order
OperationServices ==
    << ServiceSummary(STR_payment_a, STR_Service, STR_prod),
       ServiceSummary(STR_Unknown, STR_Service, STR_prod),
       ServiceSummary(STR_order_b, STR_Service, STR_staging) >>

\* what list_services may do for this resolver
OperationServicePages ==
    LET pages == {Pick(OperationServices, S) : S \in SUBSET (1..Len(OperationServices))}
    IN  { [kind |-> "ok", response |-> [ServiceSummaries |-> page]] : page \in pages }
        \cup { [kind |-> "ok", response |-> [ServiceSummaries |-> page, NextToken |-> ValidToken]] :
                  page \in pages }
        \cup { [kind |-> "raise", message |-> msg] : msg \in ErrorMessages }

Operation(name, metric_types) ==
    [ Name |-> name,
      MetricReferences |-> [i \in 1..Len(metric_types) |-> [MetricType |-> metric_types[i]]] ]

\* what list_service_operations may do: return operations or raise
OperationsBehaviours ==
    { [kind |-> "ok", response |-> [Operations |-> operations]] :
        operations \in { <<>>,
                         <<Operation(STR_GetItem, <<STR_Latency>>),
                           Operation(STR_PutItem, <<STR_Fault>>)>>,
                         <<Operation(STR_GetItem, <<STR_Availability>>)>>,
                         <<Operation(STR_GetItem, <<STR_Latency, STR_Fault>>)>> } }
    \cup { [kind |-> "raise", message |-> msg] : msg \in ErrorMessages }

InitOps ==
    /\ clock = 0
    /\ resolve \in { [ fn |-> "expand_service_operation_wildcard_patterns",
                       pc |-> "op_start", targets |-> targets, next_token |-> next_token,
                       unix_start |-> 100, unix_end |-> 200, max_results |-> 5 ] :
                     targets \in SeqsUpTo(ServiceOperationTargetPool, MaxOperationTargets),
                     next_token \in {None, ValidToken} }
    /\ Unused({"sessions", "last", "plan", "audit", "active", "inflight"})

\* expand_service_operation_wildcard_patterns up to the list_services call,
\* or to its return when there is no pattern
ExpandServiceOperationWildcardPatterns ==
    /\ resolve.pc = "op_start"
    /\ LET first == ServiceOperationFirstPass(resolve.targets)
       IN  IF first.wildcard_patterns # <<>>
           THEN resolve' = [ pc |-> "op_list_services",
                             calls |-> <<ListServicesParams(resolve.unix_start, resolve.unix_end,
                                                            resolve.next_token,
                                                            resolve.max_results)>> ] @@ resolve
           ELSE resolve' = [ pc |-> "returned", calls |-> <<>>,
                             outcome |-> [ expanded_targets |-> first.expanded_targets,
                                           next_token |-> None,
                                           service_names_in_batch |-> <<>> ] ] @@ resolve
    /\ UNCHANGED <<sessions, nextId, clock, last, plan, audit, active, inflight>>

\* the resolver between two lookups: it returns when no lookup is left, and
\* calls list_service_operations for the first one that is
AfterLookup(state, lookups, expanded_targets, lookups_done) ==
    IF lookups = <<>>
    THEN [ pc |-> "returned",
           lookups_done |-> lookups_done,
           outcome |-> [ expanded_targets |-> expanded_targets,
                         next_token |->
                             clean_pagination_token(
                                 Get(state.response.response, "NextToken", None)),
                         service_names_in_batch |->
                             ServiceNamesInBatch(
                                 Get(state.response.response, "ServiceSummaries", <<>>)) ] ]
         @@ state
    ELSE [ pc |-> "list_service_operations",
           lookups |-> lookups,
           lookups_done |-> lookups_done,
           expanded_targets |-> expanded_targets,
           calls |-> Append(state.calls,
                            ListServiceOperationsParams(
                                state.unix_start, state.unix_end,
                                Get(Head(lookups).service, "KeyAttributes", EmptyDict))) ]
         @@ state

\* from the return of list_services to the first list_service_operations
\* call, to the return or to the ValueError
OperationListServicesDone(client) ==
    /\ resolve.pc = "op_list_services"
    /\ LET first == ServiceOperationFirstPass(resolve.targets)
       IN  IF client.kind = "raise"
           THEN resolve' = [ pc |-> "raised", response |-> client,
                             outcome |-> [raised |-> "ValueError", error |-> client.message] ]
                           @@ resolve
           ELSE resolve' =
                    AfterLookup([response |-> client] @@ resolve,
                                OperationLookups(first, Get(client.response,
                                                            "ServiceSummaries", <<>>)),
                                first.expanded_targets, <<>>)
    /\ UNCHANGED <<sessions, nextId, clock, last, plan, audit, active, inflight>>

\* from the return of one list_service_operations call to the next one or to
\* the return: a call that raises adds nothing and the loop goes on
ListServiceOperationsDone(client) ==
    /\ resolve.pc = "list_service_operations"
    /\ LET first == ServiceOperationFirstPass(resolve.targets)
           lookup == Head(resolve.lookups)
           added == IF client.kind = "raise" THEN <<>>
                    ELSE ExpandOperations(first.wildcard_patterns[lookup.pattern],
                                          lookup.service,
                                          Get(client.response, "Operations", <<>>))
       IN  resolve' = AfterLookup(resolve, Tail(resolve.lookups),
                                  resolve.expanded_targets \o added,
                                  Append(resolve.lookups_done,
                                         [client |-> client] @@ lookup))
    /\ UNCHANGED <<sessions, nextId, clock, last, plan, audit, active, inflight>>

NextOps ==
    \/ ExpandServiceOperationWildcardPatterns
    \/ \E client \in OperationServicePages : OperationListServicesDone(client)
    \/ \E client \in OperationsBehaviours : ListServiceOperationsDone(client)

SpecOps == InitOps /\ [][NextOps]_vars

----------------------------------------------------------------------------
(* One call of any of the three resolvers *)

InitExpand == InitFuzzy \/ InitSlo \/ InitOps

NextExpand == NextFuzzy \/ NextSlo \/ NextOps

SpecExpand == InitExpand /\ [][NextExpand]_vars

----------------------------------------------------------------------------
(* audit_utils.py: parse_auditors *)

STR_operation_metric == <<"o", "p", "e", "r", "a", "t", "i", "o", "n", "_", "m", "e", "t", "r", "i", "c">>
STR_trace == <<"t", "r", "a", "c", "e">>
STR_log == <<"l", "o", "g">>
STR_dependency_metric == <<"d", "e", "p", "e", "n", "d", "e", "n", "c", "y", "_", "m", "e", "t", "r", "i", "c">>
STR_top_contributor == <<"t", "o", "p", "_", "c", "o", "n", "t", "r", "i", "b", "u", "t", "o", "r">>
STR_service_quota == <<"s", "e", "r", "v", "i", "c", "e", "_", "q", "u", "o", "t", "a">>
STR_all == <<"a", "l", "l">>

\* allowed, a set of str
allowed ==
    {STR_slo, STR_operation_metric, STR_trace, STR_log, STR_dependency_metric,
     STR_top_contributor, STR_service_quota}

\* sorted(allowed)
SortedAllowed ==
    <<STR_dependency_metric, STR_log, STR_operation_metric, STR_service_quota, STR_slo,
      STR_top_contributor, STR_trace>>

\* s.split(sep) for a character sep: the pieces between the separators,
\* the empty ones included
RECURSIVE Split(_, _)
Split(s, sep) ==
    IF ~HasChar(sep, s) THEN <<s>>
    ELSE LET i == CHOOSE k \in 1..Len(s) : s[k] = sep /\ \A j \in 1..(k - 1) : s[j] # sep
         IN  <<SubSeq(s, 1, i - 1)>> \o Split(SubSeq(s, i + 1, Len(s)), sep)

\* sep.join(items)
RECURSIVE Join(_, _)
Join(items, sep) ==
    IF items = <<>> THEN <<>>
    ELSE IF Len(items) = 1 THEN items[1]
    ELSE items[1] \o sep \o Join(Tail(items), sep)

\* parse_auditors that compares the names without regard to letter case
parse_auditors_AnyCase(auditors_value, default_auditors, wants_root_cause) ==
    LET raw_a ==
            IF auditors_value = None
            THEN IF ~wants_root_cause THEN default_auditors ELSE <<>>
            ELSE IF Lower(auditors_value.value) = STR_all THEN <<>>
            ELSE LET pieces == Split(auditors_value.value, ",")
                     NotEmpty(a) == Strip(a, " ") # <<>>
                     kept == SelectSeq(pieces, NotEmpty)
                 IN  [i \in 1..Len(kept) |-> Strip(kept[i], " ")]
        Invalid(a) == Lower(a) \notin allowed
        invalid == SelectSeq(raw_a, Invalid)
    IN  IF Len(raw_a) = 0 THEN [returned |-> <<>>]
        ELSE IF invalid # <<>>
             THEN [raised |-> "ValueError",
                   error |-> <<"I", "n", "v", "a", "l", "i", "d", " ", "a", "u", "d", "i", "t", "o", "r", "(", "s", ")", ":", " ">> \o Join(invalid, <<",", " ">>)
                             \o <<".", " ", "A", "l", "l", "o", "w", "e", "d", ":", " ">> \o Join(SortedAllowed, <<",", " ">>)]
             ELSE [returned |-> raw_a]

\* parse_auditors(auditors_value, default_auditors); auditors_value is None or
\* a str, and wants_root_cause tells whether the MCP_USER_PROMPT of the
\* environment holds 'root cause'
parse_auditors(auditors_value, default_auditors, wants_root_cause) ==
    LET raw_a ==
            IF auditors_value = None
            THEN IF ~wants_root_cause THEN default_auditors ELSE <<>>
            ELSE IF Lower(auditors_value.value) = STR_all THEN <<>>
            ELSE LET pieces == Split(auditors_value.value, ",")
                     NotEmpty(a) == Strip(a, " ") # <<>>
                     kept == SelectSeq(pieces, NotEmpty)
                 IN  [i \in 1..Len(kept) |-> Strip(kept[i], " ")]
        Invalid(a) == a \notin allowed
        invalid == SelectSeq(raw_a, Invalid)
    IN  IF Len(raw_a) = 0 THEN [returned |-> <<>>]
        ELSE IF invalid # <<>>
             THEN [raised |-> "ValueError",
                   error |-> <<"I", "n", "v", "a", "l", "i", "d", " ", "a", "u", "d", "i", "t", "o", "r", "(", "s", ")", ":", " ">> \o Join(invalid, <<",", " ">>)
                             \o <<".", " ", "A", "l", "l", "o", "w", "e", "d", ":", " ">> \o Join(SortedAllowed, <<",", " ">>)]
             ELSE [returned |-> raw_a]

----------------------------------------------------------------------------
(* One BatchProcessingState driven by its methods; plan holds the object,
   the results of its get_next_batch calls and the summary last returned *)

\* the results handed to add_batch_result
ProgressResults ==
    { [AuditFindings |-> <<1, 2>>], [ResponseMetadata |-> "m"], [BatchError |-> "API error"] }

InitProgress ==
    /\ clock = 0
    /\ plan \in { [ pc |-> "progress",
                    self |-> BatchProcessingState([AuditTargets |-> Targets(n)], 0),
                    returns |-> <<>>,
                    summary |-> None ] : n \in 0..MaxProgressTargets }
    /\ Unused({"sessions", "last", "audit", "active", "inflight", "resolve"})

GetNextBatch ==
    /\ plan.pc = "progress"
    /\ Len(plan.returns) < Len(plan.self.target_batches) + MaxExtraCalls
    /\ LET r == get_next_batch(plan.self, clock)
       IN  plan' = [plan EXCEPT !.self = r.self, !.returns = Append(@, r.result),
                                !.summary = None]
    /\ UNCHANGED <<sessions, nextId, clock, last, audit, active, inflight, resolve>>

AddBatchResult(result) ==
    /\ plan.pc = "progress"
    /\ Len(plan.self.processed_results) < Len(plan.self.target_batches) + MaxExtraCalls
    /\ plan' = [plan EXCEPT !.self = add_batch_result(@, result, clock), !.summary = None]
    /\ UNCHANGED <<sessions, nextId, clock, last, audit, active, inflight, resolve>>

GetProgressSummary ==
    /\ plan.pc = "progress"
    /\ plan' = [plan EXCEPT !.summary = get_progress_summary(plan.self)]
    /\ UNCHANGED <<sessions, nextId, clock, last, audit, active, inflight, resolve>>

NextProgress ==
    \/ GetNextBatch
    \/ \E result \in ProgressResults : AddBatchResult(result)
    \/ GetProgressSummary

SpecProgress == InitProgress /\ [][NextProgress]_vars

----------------------------------------------------------------------------
(* parse_auditors applied to an auditors parameter *)

STR_bogus == <<"b", "o", "g", "u", "s">>

\* the items between the commas of an auditors string
AuditorItems ==
    {STR_slo, STR_trace, STR_bogus, <<"S", "L", "O">>, <<>>, <<" ", "l", "o", "g", " ">>,
     STR_all, <<"A", "L", "l">>, <<" ">>}

\* the auditors strings of at most MaxAuditorItems items
AuditorStrings ==
    {[py |-> "str", value |-> Join(items, <<",">>)] : items \in SeqsUpTo(AuditorItems, MaxAuditorItems)}

DefaultAuditors == <<STR_slo, STR_operation_metric>>

InitAuditors ==
    /\ clock = 0
    /\ resolve \in {[pc |-> "auditors", auditors_value |-> v, wants_root_cause |-> b] :
                      v \in AuditorStrings \cup {None}, b \in BOOLEAN}
    /\ Unused({"sessions", "last", "plan", "audit", "active", "inflight"})

ParseAuditors ==
    /\ resolve.pc = "auditors"
    /\ resolve' = [pc |-> "parsed",
                   result |-> parse_auditors(resolve.auditors_value, DefaultAuditors,
                                             resolve.wants_root_cause)] @@ resolve
    /\ UNCHANGED <<sessions, nextId, clock, last, plan, audit, active, inflight>>

NextAuditors == ParseAuditors

SpecAuditors == InitAuditors /\ [][NextAuditors]_vars

----------------------------------------------------------------------------
(* clean_pagination_token applied to a cursor, and to its own result *)

\* the lengths of a run: around the bounds 200 and 400 of the extraction
RunLengths == {1, 199, 200, 400, 401}

\* the tokens of at most MaxTokenRuns runs, neighbouring runs being of
\* different kinds; the token of no run is the empty string
Tokens ==
    { Token(runs) : runs \in
        { r \in SeqsUpTo([kind : {"valid", "space", "other"}, n : RunLengths], MaxTokenRuns) :
            \A i \in 1..(Len(r) - 1) : r[i].kind # r[i + 1].kind } }

InitToken ==
    /\ clock = 0
    /\ resolve \in {[pc |-> "token", token |-> t] : t \in Tokens \cup {None}}
    /\ Unused({"sessions", "last", "plan", "audit", "active", "inflight"})

CleanPaginationToken ==
    /\ resolve.pc = "token"
    /\ resolve' = [pc |-> "cleaned", cleaned |-> clean_pagination_token(resolve.token)]
                  @@ resolve
    /\ UNCHANGED <<sessions, nextId, clock, last, plan, audit, active, inflight>>

\* the result handed to clean_pagination_token again, as the caller's cursor
\* of the next page is
CleanPaginationTokenAgain ==
    /\ resolve.pc = "cleaned"
    /\ resolve' = [pc |-> "cleaned_again", again |-> clean_pagination_token(resolve.cleaned)]
                  @@ resolve
    /\ UNCHANGED <<sessions, nextId, clock, last, plan, audit, active, inflight>>

NextToken == CleanPaginationToken \/ CleanPaginationTokenAgain

SpecToken == InitToken /\ [][NextToken]_vars

----------------------------------------------------------------------------
(* The planners applied to one target list *)

InitPlan ==
    /\ sessions = EmptyStore
    /\ nextId = 0
    /\ clock = 0
    /\ last = NoOp
    /\ audit = NoAudit
    /\ Unused({"active", "inflight", "resolve"})
    /\ plan \in { [ targets |-> Targets(n), batch_size |-> c, done |-> {},
                    session_batches |-> <<>>, state_batches |-> <<>>,
                    audit_batches |-> <<>> ] :
                  n \in 0..MaxPlanTargets, c \in 1..MaxPlanBatchSize }

\* create_batch_session(targets, ..., batch_size) on an empty store
PlanSession ==
    /\ "session" \notin plan.done
    /\ LET store == create_batch_session(EmptyStore, 1, plan.targets,
                        CHOOSE o \in InputObjs : TRUE, plan.batch_size, {}, clock)
       IN  plan' = [plan EXCEPT !.done = @ \cup {"session"},
                                !.session_batches = store[1].batches]
    /\ UNCHANGED <<sessions, nextId, clock, last, audit, active, inflight, resolve>>

\* BatchProcessingState({'AuditTargets': targets}, ...)
PlanState ==
    /\ "state" \notin plan.done
    /\ plan' = [plan EXCEPT !.done = @ \cup {"state"},
                            !.state_batches = _create_batches(plan.targets)]
    /\ UNCHANGED <<sessions, nextId, clock, last, audit, active, inflight, resolve>>

\* the chunking of execute_audit_api({'AuditTargets': targets, ...}, ...)
PlanAudit ==
    /\ "audit" \notin plan.done
    /\ plan' = [plan EXCEPT !.done = @ \cup {"audit"},
                            !.audit_batches = AuditTargetBatches(plan.targets)]
    /\ UNCHANGED <<sessions, nextId, clock, last, audit, active, inflight, resolve>>

NextPlan == PlanSession \/ PlanState \/ PlanAudit

SpecPlan == InitPlan /\ [][NextPlan]_vars

----------------------------------------------------------------------------
(* One execute_audit_api pass; the state is the position between calls of
   list_audit_findings *)

\* what a list_audit_findings call of the pass may do: as ApiBehaviours, and
\* a response with a finding that no other response holds
AuditApiBehaviours ==
    ApiBehaviours \cup {[kind |-> "ok", response |-> [AuditFindings |-> <<MaxFindings + 1>>]]}

InitAudit ==
    /\ sessions = EmptyStore
    /\ nextId = 0
    /\ clock = 0
    /\ last = NoOp
    /\ plan = NoPlan
    /\ audit = [pc |-> "idle"]
    /\ Unused({"active", "inflight", "resolve"})

\* the pass after its loop: the aggregation and the return
AuditReturn(a) ==
    [a EXCEPT !.pc = "done", !.output = AuditOutput(a.all_batch_results)]

\* execute_audit_api is entered: the batches are planned and the call for
\* the first batch is issued
ExecuteAuditApi(n, input_obj) ==
    /\ audit.pc = "idle"
    /\ LET target_batches == AuditTargetBatches(Targets(n))
           entered == [ pc |-> "calling",
                        targets |-> Targets(n),
                        input_obj |-> input_obj,
                        target_batches |-> target_batches,
                        batch_idx |-> 1,
                        all_batch_results |-> <<>>,
                        calls |-> <<>>,
                        outcomes |-> <<>>,
                        output |-> None ]
       IN  audit' = IF target_batches = <<>>
                    THEN AuditReturn(entered)
                    ELSE [entered EXCEPT !.calls =
                            <<AuditBatchInput(input_obj, target_batches[1])>>]
    /\ UNCHANGED <<sessions, nextId, clock, last, plan, active, inflight, resolve>>

\* ListAuditFindingsDone that leaves the loop at the first call that raises
ListAuditFindingsDone_AbortsOnFailure(client) ==
    /\ audit.pc = "calling"
    /\ LET batch_targets == audit.target_batches[audit.batch_idx]
           appended == [audit EXCEPT
                           !.all_batch_results =
                               Append(@, AuditBatchResult(audit.batch_idx, batch_targets, client)),
                           !.outcomes = Append(@, client)]
       IN  audit' = IF audit.batch_idx < Len(audit.target_batches) /\ client.kind = "ok"
                    THEN [appended EXCEPT
                            !.batch_idx = @ + 1,
                            !.calls = Append(@, AuditBatchInput(audit.input_obj,
                                          audit.target_batches[audit.batch_idx + 1]))]
                    ELSE AuditReturn(appended)
    /\ UNCHANGED <<sessions, nextId, clock, last, plan, active, inflight, resolve>>

\* the call for batch batch_idx returns or raises; the next call is issued,
\* or the pass aggregates and returns
ListAuditFindingsDone(client) ==
    /\ audit.pc = "calling"
    /\ LET batch_targets == audit.target_batches[audit.batch_idx]
           appended == [audit EXCEPT
                           !.all_batch_results =
                               Append(@, AuditBatchResult(audit.batch_idx, batch_targets, client)),
                           !.outcomes = Append(@, client)]
       IN  audit' = IF audit.batch_idx < Len(audit.target_batches)
                    THEN [appended EXCEPT
                            !.batch_idx = @ + 1,
                            !.calls = Append(@, AuditBatchInput(audit.input_obj,
                                          audit.target_batches[audit.batch_idx + 1]))]
                    ELSE AuditReturn(appended)
    /\ UNCHANGED <<sessions, nextId, clock, last, plan, active, inflight, resolve>>

NextAudit ==
    \/ \E n \in 0..MaxAuditTargets, input_obj \in InputObjs : ExecuteAuditApi(n, input_obj)
    \/ \E client \in AuditApiBehaviours : ListAuditFindingsDone(client)

SpecAudit == InitAudit /\ [][NextAudit]_vars

\* every list_audit_findings call comes back, with a response or an exception
SpecAuditFair ==
    SpecAudit /\ WF_vars(\E client \in AuditApiBehaviours : ListAuditFindingsDone(client))

----------------------------------------------------------------------------
(* Properties of process_next_batch (Spec) *)

\* the step is a process_next_batch call on session_id
IsProcessNextBatch(session_id) ==
    /\ last'.op = "process_next_batch"
    /\ last'.sid = session_id

\* the step is a process_next_batch call on a stored session with cursor
\* below the number of batches, and list_audit_findings behaves as kind
IsBatchCall(session_id, kind) ==
    /\ IsProcessNextBatch(session_id)
    /\ session_id \in DOMAIN sessions
    /\ sessions[session_id].current_batch_index < Len(sessions[session_id].batches)
    /\ last'.client.kind = kind

\* the session fields that process_next_batch may change, apart from last_activity
Progress(session) ==
    << session.current_batch_index, session.processed_batches,
       session.failed_batches, session.all_findings, session.status >>

\* C1: a process_next_batch call at cursor k whose findings API call raises
\* leaves the session unchanged (cursor k, failed_batches and
\* processed_batches of the same length, all_findings and status as before)
\* and returns status 'failed', the error message and batch_index k + 1.
C1_FailureLeavesSessionUnchanged ==
    [][ \A sid \in SessionIds :
          IsBatchCall(sid, "raise") =>
            /\ sessions'[sid].current_batch_index = sessions[sid].current_batch_index
            /\ Len(sessions'[sid].failed_batches) = Len(sessions[sid].failed_batches)
            /\ Len(sessions'[sid].processed_batches) = Len(sessions[sid].processed_batches)
            /\ sessions'[sid].all_findings = sessions[sid].all_findings
            /\ sessions'[sid].status = sessions[sid].status
            /\ last'.result.status = "failed"
            /\ last'.result.error = last'.client.message
            /\ last'.result.batch_index = sessions[sid].current_batch_index + 1 ]_vars

\* C2: a failed chunk is retryable: the process_next_batch call that follows
\* a failed call on the same session submits the same chunk again (same
\* batch_index, same targets), and when it succeeds the cursor is that
\* batch_index and status is 'completed' if it equals the number of chunks,
\* else 'in_progress'.
C2_FailedChunkIsRetried ==
    [][ \A sid \in SessionIds :
          ( /\ last.op = "process_next_batch"
            /\ last.sid = sid
            /\ last.calls # <<>>
            /\ last.result.status = "failed"
            /\ IsProcessNextBatch(sid) ) =>
            /\ last'.calls # <<>>
            /\ last'.result.batch_index = last.result.batch_index
            /\ last'.calls[1].AuditTargets = last.calls[1].AuditTargets
            /\ last'.result.status = "success" =>
                 /\ sessions'[sid].current_batch_index = last.result.batch_index
                 /\ sessions'[sid].status =
                      IF last.result.batch_index = Len(sessions'[sid].batches)
                      THEN "completed" ELSE "in_progress" ]_vars

\* C3: a process_next_batch call at cursor k that succeeds advances the
\* cursor by one, appends its result to processed_batches and the findings
\* of the response to all_findings, leaves failed_batches alone, sets status
\* to 'completed' if the new cursor is the number of chunks and to
\* 'in_progress' otherwise, and reports batch_index k + 1, total_batches,
\* targets_in_batch and findings_count.
C3_SuccessAdvancesByOne ==
    [][ \A sid \in SessionIds :
          IsBatchCall(sid, "ok") =>
            LET old == sessions[sid]
                new == sessions'[sid]
                k == old.current_batch_index
                returned == IF "AuditFindings" \in DOMAIN last'.client.response
                            THEN last'.client.response.AuditFindings ELSE <<>>
            IN  /\ new.current_batch_index = k + 1
                /\ new.processed_batches = Append(old.processed_batches, last'.result)
                /\ new.all_findings = old.all_findings \o returned
                /\ new.failed_batches = old.failed_batches
                /\ new.status = IF k + 1 = Len(old.batches)
                                THEN "completed" ELSE "in_progress"
                /\ last'.result.status = "success"
                /\ last'.result.batch_index = k + 1
                /\ last'.result.total_batches = Len(old.batches)
                /\ last'.result.targets_in_batch = Len(old.batches[k + 1])
                /\ last'.result.findings_count = Len(returned)
                /\ last'.result.findings = returned ]_vars

\* the second chunk of two succeeded with a finding, as the first had
C3_Witness ==
    /\ last.op = "process_next_batch"
    /\ last.calls # <<>>
    /\ last.client.kind = "ok"
    /\ last.result.batch_index = 2
    /\ last.result.findings_count = 1
    /\ sessions[last.sid].status = "completed"
    /\ Len(sessions[last.sid].all_findings) = 2

RECURSIVE SumFindingsCount(_)
SumFindingsCount(results) ==
    IF results = <<>> THEN 0
    ELSE Head(results).findings_count + SumFindingsCount(Tail(results))

\* C4: in every reachable state of every stored session, processed_batches
\* has as many results as the cursor, the i-th of them has batch_index i,
\* failed_batches is empty and all_findings has as many findings as the
\* findings_count of the processed results add up to; so a 'completed'
\* session has one success result per chunk.
C4_OneSuccessPerChunk ==
    \A sid \in DOMAIN sessions :
        LET session == sessions[sid]
        IN  /\ Len(session.processed_batches) = session.current_batch_index
            /\ \A i \in 1..Len(session.processed_batches) :
                   session.processed_batches[i].batch_index = i
            /\ session.failed_batches = <<>>
            /\ Len(session.all_findings) = SumFindingsCount(session.processed_batches)
            /\ session.status = "completed" =>
                   Len(session.processed_batches) = Len(session.batches)

\* C5: process_next_batch with a session id that is not in the store returns
\* {'error': 'Session not found or expired'}, calls no findings API and
\* leaves the store as it is (no session created, none changed).
C5_UnknownSessionIsRejected ==
    [][ \A sid \in SessionIds :
          (IsProcessNextBatch(sid) /\ sid \notin DOMAIN sessions) =>
            /\ last'.result = [error |-> "Session not found or expired"]
            /\ last'.calls = <<>>
            /\ sessions' = sessions ]_vars

\* an unknown id was rejected while the store held a session in progress
C5_Witness ==
    /\ last.op = "process_next_batch"
    /\ last.sid \notin DOMAIN sessions
    /\ last.result = [error |-> "Session not found or expired"]
    /\ \E sid \in DOMAIN sessions : sessions[sid].status = "in_progress"

\* C6: process_next_batch on a session whose cursor has reached the number
\* of chunks returns {'error': 'No more batches to process', 'status':
\* 'completed'}, calls no findings API and leaves cursor, processed_batches,
\* failed_batches, all_findings and status of the session unchanged, on
\* every repetition.
C6_NoMoreBatchesChangesNothing ==
    [][ \A sid \in SessionIds :
          ( /\ IsProcessNextBatch(sid)
            /\ sid \in DOMAIN sessions
            /\ sessions[sid].current_batch_index >= Len(sessions[sid].batches) ) =>
            /\ last'.result = [error |-> "No more batches to process",
                               status |-> "completed"]
            /\ last'.calls = <<>>
            /\ Progress(sessions'[sid]) = Progress(sessions[sid]) ]_vars

\* the call was repeated on a session that has no chunk at all and was
\* therefore never executed
C6_Witness ==
    /\ last.op = "process_next_batch"
    /\ last.sid \in DOMAIN sessions
    /\ last.result = [error |-> "No more batches to process", status |-> "completed"]
    /\ sessions[last.sid].batches = <<>>
    /\ sessions[last.sid].status = "created"
    /\ \E sid \in DOMAIN sessions :
          /\ sessions[sid].current_batch_index >= 1
          /\ sessions[sid].current_batch_index = Len(sessions[sid].batches)

\* C7: a process_next_batch call issues at most one findings API call; its
\* AuditTargets are the whole chunk at the cursor the session had when the
\* call was entered, its time range is the stored StartTime/EndTime, and it
\* carries Auditors exactly when the stored request parameters do.
C7_OneCallForTheChunkAtTheCursor ==
    [][ \A sid \in SessionIds :
          IsProcessNextBatch(sid) =>
            /\ Len(last'.calls) <= 1
            /\ last'.calls # <<>> =>
                 /\ sid \in DOMAIN sessions
                 /\ sessions[sid].current_batch_index < Len(sessions[sid].batches)
                 /\ LET session == sessions[sid]
                        call == last'.calls[1]
                    IN  /\ call.AuditTargets = session.batches[session.current_batch_index + 1]
                        /\ call.StartTime = FromTimestamp(session.input_obj.StartTime)
                        /\ call.EndTime = FromTimestamp(session.input_obj.EndTime)
                        /\ ("Auditors" \in DOMAIN call) <=>
                               ("Auditors" \in DOMAIN session.input_obj)
                        /\ "Auditors" \in DOMAIN call =>
                               call.Auditors = session.input_obj.Auditors ]_vars

\* the last chunk of a session of chunks <<1>>, <<2>> was submitted
\* without Auditors
C7_Witness ==
    /\ last.op = "process_next_batch"
    /\ Len(last.calls) = 1
    /\ "Auditors" \notin DOMAIN last.calls[1]
    /\ last.calls[1].AuditTargets = <<2>>
    /\ last.result.batch_index = 2
    /\ last.result.total_batches = 2

----------------------------------------------------------------------------
(* Properties of the planners (SpecPlan) *)

RECURSIVE Concat(_)
Concat(chunks) ==
    IF chunks = <<>> THEN <<>> ELSE Head(chunks) \o Concat(Tail(chunks))

\* ceil(n / c) for c > 0
CeilDiv(n, c) == (n + c - 1) \div c

\* C8: for a target list of length n and batch_size c > 0,
\* create_batch_session stores ceil(n/c) chunks, each of c targets except the
\* last, which has 1..c, and the chunks concatenated in order are the
\* target list.
C8_ChunksPartitionTargets ==
    "session" \in plan.done =>
        LET chunks == plan.session_batches
            n == Len(plan.targets)
            c == plan.batch_size
        IN  /\ Len(chunks) = CeilDiv(n, c)
            /\ \A k \in 1..(Len(chunks) - 1) : Len(chunks[k]) = c
            /\ chunks # <<>> => Len(chunks[Len(chunks)]) \in 1..c
            /\ Concat(chunks) = plan.targets

\* seven targets were planned with batch_size 3
C8_Witness ==
    /\ "session" \in plan.done
    /\ Len(plan.targets) = 7
    /\ plan.batch_size = 3

\* C9: zero targets yield zero chunks in create_batch_session, in
\* BatchProcessingState._create_batches and in the chunking of
\* execute_audit_api.
C9_ZeroTargetsZeroChunks ==
    plan.targets = <<>> =>
        /\ "session" \in plan.done => plan.session_batches = <<>>
        /\ "state" \in plan.done => plan.state_batches = <<>>
        /\ "audit" \in plan.done => plan.audit_batches = <<>>

----------------------------------------------------------------------------
(* Properties of execute_audit_api (SpecAudit) *)

\* C10: a pass over an empty target list has no batch result to aggregate
\* and returns 'No findings from any batch', not an aggregated JSON
\* structure.
C10_EmptyPassReturnsNoFindings ==
    (audit.pc = "done" /\ audit.targets = <<>>) =>
        /\ audit.all_batch_results = <<>>
        /\ audit.output = [text |-> "Result: No findings from any batch."]

----------------------------------------------------------------------------
(* The capacity of the session store *)

\* the capacity the tests of _cleanup_excess_sessions configure
MAX_BATCH_SESSIONS == 1

\* C11: after any sequence of create_batch_session calls the store holds at
\* most the configured maximum number of sessions, the excess being evicted
\* oldest creation time first, and the session just created is retained.
C11_StoreWithinCapacity ==
    /\ Cardinality(DOMAIN sessions) <= MAX_BATCH_SESSIONS
    /\ last.op = "create_batch_session" => last.sid \in DOMAIN sessions

----------------------------------------------------------------------------
(* The processing mode *)

\* C15: create_batch_session stores auto_complete = True exactly when the
\* number of targets is at most batch_size if the caller gave no value, stores
\* an explicit value as given for any target count, and no later step changes
\* the flag of a session.
C15_ModeDecidedAtCreate ==
    [][ /\ (last'.op = "create_batch_session" /\ nextId' = nextId + 1) =>
              sessions'[last'.sid].auto_complete =
                  ( IF last'.auto_complete = {}
                    THEN Len(last'.targets) <= last'.batch_size
                    ELSE last'.auto_complete = {TRUE} )
        /\ \A id \in DOMAIN sessions \cap DOMAIN sessions' :
              sessions'[id].auto_complete = sessions[id].auto_complete ]_vars

\* an undecided create with exactly batch_size targets stored True, next to a
\* session created with an explicit False for a single chunk and processed since
C15_Witness ==
    /\ last.op = "create_batch_session"
    /\ last.auto_complete = {}
    /\ Len(last.targets) = last.batch_size
    /\ sessions[last.sid].auto_complete = TRUE
    /\ \E id \in DOMAIN sessions \ {last.sid} :
          /\ sessions[id].auto_complete = FALSE
          /\ Len(sessions[id].batches) = 1
          /\ sessions[id].current_batch_index = 1

----------------------------------------------------------------------------
(* Progress of a session *)

\* C18: a chunk whose call failed is never left behind: whenever the cursor
\* of a session has passed a chunk, that chunk has a success result, so a
\* session that is 'completed' has one for each of its N >= 1 chunks (the
\* state every fair run of repeated calls has to reach).
C18_NoChunkLeftBehind ==
    \A sid \in DOMAIN sessions :
        LET session == sessions[sid]
            Succeeded(k) ==
                \E i \in 1..Len(session.processed_batches) :
                    /\ session.processed_batches[i].batch_index = k
                    /\ session.processed_batches[i].status = "success"
        IN  /\ \A k \in 1..Min(session.current_batch_index, Len(session.batches)) :
                   Succeeded(k)
            /\ (session.status = "completed" /\ Len(session.batches) >= 1) =>
                   \A k \in 1..Len(session.batches) : Succeeded(k)

----------------------------------------------------------------------------
(* update_batch_session_activity *)

\* C14: update_batch_session_activity changes only last_activity of the named
\* session, and no other session; for an id that is not in the store it
\* changes nothing and creates no session.
C14_TouchChangesOnlyLastActivity ==
    [][ last'.op = "update_batch_session_activity" =>
          IF last'.sid \in DOMAIN sessions
          THEN /\ DOMAIN sessions' = DOMAIN sessions
               /\ \A id \in DOMAIN sessions \ {last'.sid} : sessions'[id] = sessions[id]
               /\ [sessions'[last'.sid] EXCEPT !.last_activity = None]
                    = [sessions[last'.sid] EXCEPT !.last_activity = None]
          ELSE sessions' = sessions ]_vars

\* a session with a result behind its cursor was touched later than it was
\* last active, next to another session
C14_Witness ==
    /\ last.op = "update_batch_session_activity"
    /\ last.sid \in DOMAIN sessions
    /\ sessions[last.sid].last_activity = IsoFormat(clock)
    /\ sessions[last.sid].created_at # IsoFormat(clock)
    /\ sessions[last.sid].current_batch_index >= 1
    /\ DOMAIN sessions # {last.sid}

----------------------------------------------------------------------------
(* Removal and expiry in the state store *)

\* C12: cleanup_session(id) returns True exactly when id was present and a
\* get for id returns None afterwards; and get never returns a session whose
\* last activity is older than the session timeout, whether or not an expiry
\* sweep has run since.
C12_RemovedOrExpiredIsAbsent ==
    [][ clock' = clock =>
          /\ last'.op = "cleanup_session" =>
                /\ last'.result = (last'.sid \in DOMAIN active)
                /\ get_batch_state(active', last'.sid, clock').result = None
          /\ (last'.op = "get_batch_state" /\ last'.sid \in DOMAIN active) =>
                ( clock - active[last'.sid].last_activity > BATCH_SESSION_TIMEOUT =>
                      last'.result = None ) ]_vars

\* C13: cleanup_expired_sessions removes the sessions idle for longer than the
\* timeout and no other session, changes no session it keeps, and returns the
\* number removed; get_active_sessions_count removes the same sessions first
\* and returns the number of sessions that are left.
C13_SweepRemovesExactlyTheExpired ==
    [][ (clock' = clock /\ last'.op \in {"cleanup_expired_sessions",
                                         "get_active_sessions_count"}) =>
          LET expired == {id \in DOMAIN active :
                              clock - active[id].last_activity > BATCH_SESSION_TIMEOUT}
          IN  /\ DOMAIN active' = DOMAIN active \ expired
              /\ \A id \in DOMAIN active' : active'[id] = active[id]
              /\ last'.op = "cleanup_expired_sessions" =>
                     last'.result = Cardinality(expired)
              /\ last'.op = "get_active_sessions_count" =>
                     last'.result = Cardinality(DOMAIN active \ expired) ]_vars

\* a sweep that found one session idle for the timeout plus a second and one
\* idle for exactly the timeout: it removed the first and kept the second
C13_Witness ==
    /\ last.op = "cleanup_expired_sessions"
    /\ last.result = 1
    /\ \E id \in DOMAIN active : clock - active[id].last_activity = BATCH_SESSION_TIMEOUT
    /\ \E id \in SessionIds \ DOMAIN active : TRUE

----------------------------------------------------------------------------
(* Overlapping process_next_batch calls *)

\* the batch results of a session, successes and failures
AllResults(session) == session.processed_batches \o session.failed_batches

\* one chunk has two results, or the cursor is beyond the chunks
Corrupted(session) ==
    \/ session.current_batch_index > Len(session.batches)
    \/ \E i, j \in 1..Len(AllResults(session)) :
          i # j /\ AllResults(session)[i].batch_index = AllResults(session)[j].batch_index

\* C16: a session gets two results for one chunk, or a cursor beyond its
\* chunks, only if two process_next_batch calls on it overlapped (both read
\* the cursor before either updated it); calls that do not overlap never
\* bring a session into that state, and nothing in the code keeps two calls
\* from overlapping.
C16_OnlyOverlappingCallsCorrupt ==
    \A sid \in DOMAIN sessions :
        Corrupted(sessions[sid]) => sid \in inflight.overlapped

\* two overlapping calls have both submitted chunk 1 of a session with two
\* chunks: chunk 1 has two results, the cursor was advanced twice, the session
\* is 'completed' and chunk 2 was never submitted
C16_Witness ==
    \E sid \in DOMAIN sessions :
        LET session == sessions[sid]
        IN  /\ Len(session.batches) = 2
            /\ session.current_batch_index = 2
            /\ session.status = "completed"
            /\ Len(AllResults(session)) = 2
            /\ \A i \in 1..2 : AllResults(session)[i].batch_index = 1
            /\ InFlightOn(sid) = {}

\* C17: when a process_next_batch call comes back from list_audit_findings
\* and its session has been removed from the store since the lookup, the call
\* returns its batch result (a success or a failure, not a raise), the store
\* is left as it is, and a get for the id returns None.
C17_RemovalDoesNotInterruptCall ==
    [][ \A c \in Callers :
          ( /\ inflight.calls[c].pc = "calling"
            /\ inflight'.calls[c] = Idle
            /\ inflight.calls[c].sid \notin DOMAIN sessions ) =>
              /\ last'.op = "process_next_batch"
              /\ last'.result = BatchResult(inflight.calls[c].batch_metadata, last'.client)
              /\ last'.result.status \in {"success", "failed"}
              /\ last'.result.batch_index = inflight.calls[c].batch_metadata.batch_index
              /\ sessions' = sessions
              /\ get_batch_session(sessions', inflight.calls[c].sid) = None ]_vars

\* a call on a session that was removed while the call was waiting has
\* returned a success result, and another session is in the store
C17_Witness ==
    /\ last.op = "process_next_batch"
    /\ last.client # None
    /\ last.result.status = "success"
    /\ last.sid \notin DOMAIN sessions
    /\ sessions # EmptyStore

----------------------------------------------------------------------------
(* Wildcard patterns *)

\* the page of a call that has returned after its lookup
ReturnedPage == resolve.response.response.ServiceSummaries

\* the call has returned the expansion of the one wildcard pattern it was given
ReturnedForPattern(pattern) ==
    /\ resolve.pc = "returned"
    /\ "response" \in DOMAIN resolve
    /\ resolve.targets = <<ServiceTarget(pattern)>>

\* the name, type and environment of an entity that is not skipped
ValidEntity(service) ==
    /\ service.KeyAttributes.Name # <<>>
    /\ service.KeyAttributes.Name # STR_Unknown
    /\ service.KeyAttributes.Type = STR_Service

\* the service targets for the entities of a page, in page order
TargetsFor(services) ==
    [ i \in 1..Len(services) |->
        [ Type |-> STR_service,
          Data |-> [Service |-> [ Type |-> STR_Service,
                                  Name |-> services[i].KeyAttributes.Name,
                                  Environment |-> services[i].KeyAttributes.Environment ]] ] ]

\* C19: a pattern containing '*' matches an entity name exactly when the
\* lower-cased name contains the lower-cased pattern with all its '*'
\* removed, leading, trailing and interior: the expansion of a pattern is
\* made of the valid entities of the page whose names do.
C19_MatchIgnoresEveryStar ==
    \A pattern \in {STAR, STR_pay, STR_pay_svc} :
        ReturnedForPattern(pattern) =>
            LET literal == Lower(SelectSeq(pattern, LAMBDA ch : ch # "*"))
            IN  resolve.outcome.expanded_targets =
                    TargetsFor(SelectSeq(ReturnedPage, LAMBDA service :
                        ValidEntity(service) /\ In(literal, Lower(service.KeyAttributes.Name))))

\* C20: the single pattern '*' against a page of N valid entities yields N
\* service targets, one per entity in page order with its name and
\* environment; the single pattern '*pay*' against a page with 'payment-a',
\* 'order-b' and 'Unknown' yields the one target 'payment-a'.
C20_StarExpandsThePage ==
    /\ ( /\ ReturnedForPattern(STAR)
         /\ \A i \in 1..Len(ReturnedPage) : ValidEntity(ReturnedPage[i]) ) =>
            /\ Len(resolve.outcome.expanded_targets) = Len(ReturnedPage)
            /\ resolve.outcome.expanded_targets = TargetsFor(ReturnedPage)
    /\ ( /\ ReturnedForPattern(STR_pay)
         /\ Len(ReturnedPage) = 3
         /\ {ReturnedPage[i].KeyAttributes.Name : i \in 1..3} =
                {STR_payment_a, STR_order_b, STR_Unknown} ) =>
            /\ Len(resolve.outcome.expanded_targets) = 1
            /\ resolve.outcome.expanded_targets[1].Data.Service.Name = STR_payment_a

\* '*pay*' was expanded against the page 'payment-a', 'order-b', 'Unknown'
C20_Witness ==
    /\ ReturnedForPattern(STR_pay)
    /\ [i \in 1..Len(ReturnedPage) |-> ReturnedPage[i].KeyAttributes.Name] =
           <<STR_payment_a, STR_order_b, STR_Unknown>>
    /\ Len(resolve.outcome.expanded_targets) = 1

----------------------------------------------------------------------------
(* Inexact names and the entities of the page *)

\* the call has returned after a list_services lookup
ReturnedFromLookup ==
    /\ resolve.pc = "returned"
    /\ "response" \in DOMAIN resolve

\* the targets of the output that the input did not hold
ExpandedOnly ==
    SelectSeq(resolve.outcome.expanded_targets,
              LAMBDA t : \A i \in 1..Len(resolve.targets) : resolve.targets[i] # t)

\* C21: an entity of the page with an empty name, named 'Unknown' or whose
\* Type is not 'Service' is skipped during matching, for wildcard patterns
\* and for inexact names alike: no target that the expansion produces names
\* such an entity.
C21_NoSkippedEntityIsNamed ==
    ReturnedFromLookup =>
        \A i \in 1..Len(ExpandedOnly) :
            \A k \in 1..Len(ReturnedPage) :
                ~ValidEntity(ReturnedPage[k]) =>
                    ExpandedOnly[i].Data.Service.Name # ReturnedPage[k].KeyAttributes.Name

\* the call has returned the expansion of the one inexact name 'payment'
ReturnedForInexactName ==
    /\ ReturnedFromLookup
    /\ resolve.targets = <<[Type |-> STR_Service, Service |-> STR_payment]>>

\* the score of an entity of the page against the inexact name
ScoreOf(service) == resolve.oracle[<<STR_payment, service.KeyAttributes.Name>>]

\* the entities of the page with a name that score at least the minimum
Candidates ==
    SelectSeq(ReturnedPage, LAMBDA service :
        service.KeyAttributes.Name # <<>> /\ ScoreOf(service) >= FUZZY_MATCH_THRESHOLD)

\* the entity of the page that an expanded target names
EntityOf(target) ==
    CHOOSE service \in {ReturnedPage[k] : k \in 1..Len(ReturnedPage)} :
        service.KeyAttributes.Name = target.Data.Service.Name

\* C22: for an inexact name no entity scoring below 30 is offered; if the
\* best score is at least 85 the one best-scoring entity is produced;
\* otherwise the min(3, number of candidates) top-scoring candidates are, in
\* descending order of score.
C22_FuzzyOffersTheBestCandidates ==
    ReturnedForInexactName =>
        LET out == ExpandedOnly
            best == IF Candidates = <<>> THEN 0
                    ELSE CHOOSE s \in {ScoreOf(Candidates[k]) : k \in 1..Len(Candidates)} :
                             \A k \in 1..Len(Candidates) : ScoreOf(Candidates[k]) <= s
        IN  /\ \A i \in 1..Len(out) :
                 /\ \E k \in 1..Len(Candidates) :
                        /\ out[i].Data.Service.Name = Candidates[k].KeyAttributes.Name
                        /\ out[i].Data.Service.Environment =
                               Candidates[k].KeyAttributes.Environment
                 /\ ScoreOf(EntityOf(out[i])) >= FUZZY_MATCH_THRESHOLD
            /\ Len(out) = IF best >= HIGH_CONFIDENCE_MATCH_THRESHOLD THEN 1
                          ELSE Min(3, Len(Candidates))
            /\ out # <<>> => ScoreOf(EntityOf(out[1])) = best
            /\ \A i \in 1..(Len(out) - 1) :
                 /\ ScoreOf(EntityOf(out[i])) >= ScoreOf(EntityOf(out[i + 1]))
                 /\ out[i] # out[i + 1]
            /\ \A i \in 1..Len(out), j \in 1..Len(out) : i # j => out[i] # out[j]
            /\ best < HIGH_CONFIDENCE_MATCH_THRESHOLD =>
                 \A k \in 1..Len(Candidates) :
                     (\A i \in 1..Len(out) :
                          out[i].Data.Service.Name # Candidates[k].KeyAttributes.Name) =>
                     \A i \in 1..Len(out) :
                          ScoreOf(Candidates[k]) <= ScoreOf(EntityOf(out[i]))

\* four entities of the page score between 30 and 84, not all the same, and
\* three targets were produced
C22_Witness ==
    /\ ReturnedForInexactName
    /\ Len(Candidates) = 4
    /\ Len(ReturnedPage) = 4
    /\ ScoreOf(ReturnedPage[1]) = FUZZY_MATCH_THRESHOLD
    /\ ScoreOf(ReturnedPage[4]) = HIGH_CONFIDENCE_MATCH_THRESHOLD - 1
    /\ Len(ExpandedOnly) = 3


\* C23: after the service resolver returns normally, every service target of
\* the list it returns is concrete: its name is not empty, holds no '*' and
\* is the name of an entity of the page looked up, also for a name that
\* found no fuzzy match.
C23_ReturnedTargetsAreConcrete ==
    ReturnedFromLookup =>
        \A i \in 1..Len(resolve.outcome.expanded_targets) :
            LET target == resolve.outcome.expanded_targets[i]
            IN  IsServiceTarget(target) =>
                    /\ TargetServiceName(target) # <<>>
                    /\ ~HasChar("*", TargetServiceName(target))
                    /\ \E k \in 1..Len(ReturnedPage) :
                           ReturnedPage[k].KeyAttributes.Name = TargetServiceName(target)

----------------------------------------------------------------------------
(* Malformed SLO targets *)

\* the request holds an SLO-type target whose 'Slo' is not a dictionary
HasMalformedSlo ==
    \E i \in 1..Len(resolve.targets) :
        LET target == resolve.targets[i]
        IN  /\ "Type" \in DOMAIN target
            /\ Lower(target.Type) = STR_slo
            /\ "py" \in DOMAIN target.Data.Slo

\* C29: when an SLO-type target of the request has a 'Slo' that is not a
\* dictionary, expand_slo_wildcard_patterns fails with a validation error
\* before any lookup call, also when other targets are valid patterns, and
\* returns no partial result.
C29_MalformedSloFailsBeforeLookup ==
    (resolve.pc # "slo_start" /\ HasMalformedSlo) =>
        /\ resolve.pc = "raised"
        /\ resolve.outcome.raised = "ValueError"
        /\ resolve.calls = <<>>
        /\ "response" \notin DOMAIN resolve
        /\ "expanded_targets" \notin DOMAIN resolve.outcome

\* a request with a valid pattern first and a target whose 'Slo' is a str
\* second has failed
C29_Witness ==
    /\ resolve.pc = "raised"
    /\ Len(resolve.targets) = 2
    /\ resolve.targets[1] = SloTarget(STAR)
    /\ HasMalformedSlo
    /\ resolve.calls = <<>>

----------------------------------------------------------------------------
(* The lookups of a resolver call *)

\* the call is over
ResolverDone == resolve.pc \in {"returned", "raised"}

\* the paginated lookup calls issued so far (list_services or
\* list_service_level_objectives; list_service_operations takes KeyAttributes)
PaginatedCalls ==
    SelectSeq(Get(resolve, "calls", <<>>), LAMBDA call : "KeyAttributes" \notin DOMAIN call)

\* the name a target of the resolver's kind carries: a service name, an SLO
\* name, or the service name and the operation of a service operation
NamesOfKind(target) ==
    IF "Type" \notin DOMAIN target THEN {}
    ELSE IF resolve.fn = "expand_service_wildcard_patterns"
    THEN IF Lower(target.Type) # STR_service THEN {}
         ELSE IF "Service" \in DOMAIN target THEN {target.Service}
         ELSE {target.Data.Service.Name}
    ELSE IF resolve.fn = "expand_slo_wildcard_patterns"
    THEN IF Lower(target.Type) # STR_slo \/ "py" \in DOMAIN target.Data.Slo THEN {}
         ELSE {target.Data.Slo.SloName}
    ELSE IF Lower(target.Type) # STR_service_operation THEN {}
         ELSE {target.Data.ServiceOperation.Service.Name, target.Data.ServiceOperation.Operation}

\* the request holds something to expand: a pattern of the resolver's kind
\* or, for the service resolver, a service name, which is then inexact
HasSomethingToExpand ==
    \E i \in 1..Len(resolve.targets) :
        \E name \in NamesOfKind(resolve.targets[i]) :
            HasChar("*", name) \/ resolve.fn = "expand_service_wildcard_patterns"

\* the names of the entities of the page looked up
PageNames ==
    LET response == resolve.response.response
    IN  IF "SloSummaries" \in DOMAIN response
        THEN {response.SloSummaries[k].Name : k \in 1..Len(response.SloSummaries)}
        ELSE {response.ServiceSummaries[k].KeyAttributes.Name :
                  k \in 1..Len(response.ServiceSummaries)}

\* what C24 says of a call that is over, given that the request had
\* something to expand or not
OneLookupIfAny(something) ==
    /\ Len(PaginatedCalls) = IF something THEN 1 ELSE 0
    /\ \A i \in 1..Len(PaginatedCalls) :
         /\ "NextToken" \in DOMAIN PaginatedCalls[i] <=> resolve.next_token # None
         /\ "NextToken" \in DOMAIN PaginatedCalls[i] =>
                PaginatedCalls[i].NextToken = resolve.next_token
    /\ (resolve.pc = "returned" /\ something) =>
         \A i \in 1..Len(ExpandedOnly) :
             \E name \in NamesOfKind(ExpandedOnly[i]) : name \in PageNames
    /\ (resolve.pc = "returned" /\ ~something) =>
         /\ resolve.calls = <<>>
         /\ resolve.outcome.next_token = None

\* C24 as stated: a resolver call issues exactly one paginated lookup when its
\* input holds at least one pattern or inexact name of its kind, with the
\* caller's cursor only if one was given, and expands against that page only;
\* it issues none and returns no cursor when there is nothing to expand; it
\* never issues a second one.
C24_OneLookupPerCall ==
    /\ Len(PaginatedCalls) <= 1
    /\ ResolverDone => OneLookupIfAny(HasSomethingToExpand)

\* C24 as amended: the same, for the requests that hold no SLO target whose
\* 'Slo' is not a dictionary (those fail before any lookup).
C24_OneLookupPerValidCall ==
    /\ Len(PaginatedCalls) <= 1
    /\ (ResolverDone /\ ~(resolve.fn = "expand_slo_wildcard_patterns" /\ HasMalformedSlo)) =>
           OneLookupIfAny(HasSomethingToExpand)

\* a call with a cursor and a pattern has returned after its one lookup,
\* whose response carried a NextToken
C24_Witness ==
    /\ resolve.pc = "returned"
    /\ HasSomethingToExpand
    /\ resolve.next_token # None
    /\ Len(resolve.calls) >= 1
    /\ "NextToken" \in DOMAIN resolve.response.response
    /\ resolve.outcome.next_token # None

----------------------------------------------------------------------------
(* Targets passed through *)

\* the target is not of the resolver's kind, or its names hold no '*'
ConcreteOrOtherKind(target) ==
    \A name \in NamesOfKind(target) : ~HasChar("*", name)

\* the returned list begins with the targets of the request that satisfy
\* Passes, as they were given and in their order
PassedThroughFirst(Passes(_)) ==
    LET passed == SelectSeq(resolve.targets, Passes)
        out == resolve.outcome.expanded_targets
    IN  /\ Len(out) >= Len(passed)
        /\ SubSeq(out, 1, Len(passed)) = passed

PassesThrough(target) ==
    IF resolve.fn = "expand_service_wildcard_patterns"
    THEN NamesOfKind(target) = {}
    ELSE ConcreteOrOtherKind(target)

----------------------------------------------------------------------------
(* A lookup that raises *)

\* the paginated lookup of the call has raised
LookupRaised ==
    /\ "response" \in DOMAIN resolve
    /\ resolve.response.kind = "raise"

\* the names of the request that the lookup was to resolve: the service
\* names of the service resolver, the names with a '*' of the other two
UnresolvedNames ==
    UNION { {name \in NamesOfKind(resolve.targets[i]) :
                 HasChar("*", name) \/ resolve.fn = "expand_service_wildcard_patterns"} :
            i \in 1..Len(resolve.targets) }

\* C26: when the paginated lookup raises, the resolver fails with a
\* ValueError that names every unresolved pattern of the request and holds
\* the text of the underlying error, and returns no target list.
C26_LookupFailureNamesThePatterns ==
    LookupRaised =>
        /\ resolve.pc = "raised"
        /\ resolve.outcome.raised = "ValueError"
        /\ "expanded_targets" \notin DOMAIN resolve.outcome
        /\ resolve.outcome.error = resolve.response.message
        /\ "pattern_names" \in DOMAIN resolve.outcome
        /\ \A name \in UnresolvedNames :
             \E k \in 1..Len(resolve.outcome.pattern_names) :
                 resolve.outcome.pattern_names[k] = name

----------------------------------------------------------------------------
(* The operations of the matching services *)

\* the list_service_operations calls that have come back
LookupsDone == Get(resolve, "lookups_done", <<>>)

\* C27: if list_service_operations raises for a matching parent service, the
\* service-operation resolver fails with an expansion error; it does not
\* return normally with a result that leaves that parent's operations out.
C27_FailedOperationLookupIsNotDropped ==
    resolve.pc = "returned" =>
        \A k \in 1..Len(LookupsDone) : LookupsDone[k].client.kind # "raise"


\* the calls of list_service_operations issued so far
OperationCalls ==
    SelectSeq(Get(resolve, "calls", <<>>), LAMBDA call : "KeyAttributes" \in DOMAIN call)

\* name matches pattern: equal to it when it holds no '*', and otherwise
\* holding its text without the '*', whatever the case
NameMatches(pattern, name) ==
    IF ~HasChar("*", pattern) THEN name = pattern
    ELSE In(Lower(SelectSeq(pattern, LAMBDA ch : ch # "*")), Lower(name))

\* the service-operation patterns of the request, in order
OperationPatterns ==
    SelectSeq(resolve.targets, LAMBDA t :
        /\ NamesOfKind(t) # {}
        /\ \E name \in NamesOfKind(t) : HasChar("*", name))

\* the metric kind a pattern asks for ('Latency' when it names none)
RequestedMetric(pattern) ==
    IF "MetricType" \in DOMAIN pattern.Data.ServiceOperation
    THEN pattern.Data.ServiceOperation.MetricType
    ELSE STR_Latency

\* the parent services of the page for one pattern, in page order
Parents(pattern) ==
    SelectSeq(ReturnedPage, LAMBDA service :
        /\ ValidEntity(service)
        /\ NameMatches(pattern.Data.ServiceOperation.Service.Name,
                       service.KeyAttributes.Name))

\* the metric kinds an operation refers to
MetricKinds(operation) ==
    {operation.MetricReferences[i].MetricType : i \in 1..Len(operation.MetricReferences)}

\* the operations of a response that a pattern expands
Expanded(pattern, operations) ==
    SelectSeq(operations, LAMBDA operation :
        /\ NameMatches(pattern.Data.ServiceOperation.Operation, operation.Name)
        /\ \/ RequestedMetric(pattern) \in MetricKinds(operation)
           \/ /\ RequestedMetric(pattern) = STR_Availability
              /\ STR_Fault \in MetricKinds(operation))

\* the targets for the operations that a pattern expands for one parent
TargetsForOperations(pattern, service, operations) ==
    [ i \in 1..Len(Expanded(pattern, operations)) |->
        [ Type |-> STR_service_operation,
          Data |-> [ServiceOperation |->
                      [ Service |-> [ Type |-> STR_Service,
                                      Name |-> service.KeyAttributes.Name,
                                      Environment |-> service.KeyAttributes.Environment ],
                        Operation |-> Expanded(pattern, operations)[i].Name,
                        MetricType |-> RequestedMetric(pattern) ]] ] ]

\* C28: for each parent service of the page that matches the service pattern
\* the resolver issues exactly one list_service_operations call, not
\* paginated and capped at 100 results, and expands an operation if and only
\* if its name matches the operation pattern and its metric references
\* include the requested metric kind, 'Fault' standing for 'Availability' but
\* not the reverse; every expanded target carries the requested metric kind.
C28_OneOperationLookupPerParent ==
    (resolve.fn = "expand_service_operation_wildcard_patterns" /\ ReturnedFromLookup) =>
        LET parents == Flatten([ i \in 1..Len(OperationPatterns) |->
                                   [ k \in 1..Len(Parents(OperationPatterns[i])) |->
                                       [ pattern |-> OperationPatterns[i],
                                         service |-> Parents(OperationPatterns[i])[k] ] ] ])
            out == resolve.outcome.expanded_targets
            passed == Len(resolve.targets) - Len(OperationPatterns)
        IN  /\ Len(OperationCalls) = Len(parents)
            /\ Len(LookupsDone) = Len(parents)
            /\ \A k \in 1..Len(parents) :
                 /\ OperationCalls[k].KeyAttributes = parents[k].service.KeyAttributes
                 /\ OperationCalls[k].MaxResults = 100
                 /\ "NextToken" \notin DOMAIN OperationCalls[k]
            /\ SubSeq(out, passed + 1, Len(out)) =
                 Flatten([ k \in 1..Len(parents) |->
                             IF LookupsDone[k].client.kind = "raise" THEN <<>>
                             ELSE TargetsForOperations(parents[k].pattern, parents[k].service,
                                      LookupsDone[k].client.response.Operations) ])

\* a request for 'Availability' has been expanded to the operation 'PutItem'
\* of 'payment-a', which refers to 'Fault' only, while 'GetItem', which
\* refers to 'Latency', was left out
C28_Witness ==
    /\ resolve.fn = "expand_service_operation_wildcard_patterns"
    /\ ReturnedFromLookup
    /\ resolve.targets = <<ServiceOperationTarget(STAR, STAR, [MetricType |-> STR_Availability])>>
    /\ Len(LookupsDone) >= 1
    /\ LookupsDone[1].client.kind = "ok"
    /\ Len(LookupsDone[1].client.response.Operations) = 2
    /\ Len(resolve.outcome.expanded_targets) >= 1
    /\ resolve.outcome.expanded_targets[1].Data.ServiceOperation.Operation = STR_PutItem
    /\ resolve.outcome.expanded_targets[1].Data.ServiceOperation.MetricType = STR_Availability

----------------------------------------------------------------------------
(* Pagination tokens *)

\* the token is made of characters of the valid alphabet, and of nothing else
ValidOnly(token) ==
    /\ token # None
    /\ Len(token.runs) = 1
    /\ token.runs[1].kind = "valid"

\* C30: clean_pagination_token returns a cursor made only of characters of
\* the valid alphabet unchanged, whatever its length; applied to its own
\* result, when that is not None, it returns the same value; None gives None.
C30_ValidCursorRoundTrips ==
    /\ resolve.pc \in {"cleaned", "cleaned_again"} =>
          /\ resolve.token = None => resolve.cleaned = None
          /\ ValidOnly(resolve.token) => resolve.cleaned = resolve.token
    /\ (resolve.pc = "cleaned_again" /\ resolve.cleaned # None) =>
          resolve.again = resolve.cleaned

\* a valid cursor of 401 characters came back unchanged, twice
C30_Witness ==
    /\ resolve.pc = "cleaned_again"
    /\ resolve.token = Token(<<[kind |-> "valid", n |-> 401]>>)
    /\ resolve.cleaned = resolve.token
    /\ resolve.again = resolve.token

\* the token holds a character outside the valid alphabet
HasInvalidCharacter(token) ==
    /\ token # None
    /\ \E i \in 1..Len(token.runs) : token.runs[i].kind = "other"

\* the runs of 200 and more valid characters of the token
TokenShapedRuns(token) ==
    {i \in 1..Len(token.runs) : token.runs[i].kind = "valid" /\ token.runs[i].n >= 200}

\* C31: of a cursor with an invalid character, clean_pagination_token returns
\* a run of 200 to 400 valid characters whenever the cursor holds one,
\* wherever it lies, and None only when the cursor holds none.
C31_SalvagesTheRunWhereverItLies ==
    (resolve.pc \in {"cleaned", "cleaned_again"} /\ HasInvalidCharacter(resolve.token)) =>
        /\ resolve.cleaned = None <=> TokenShapedRuns(resolve.token) = {}
        /\ resolve.cleaned # None =>
              \E i \in TokenShapedRuns(resolve.token) :
                  resolve.cleaned = Token(<<[kind |-> "valid", n |-> Min(resolve.token.runs[i].n, 400)]>>)

----------------------------------------------------------------------------
(* The auditors parameter *)

\* the trimmed, non-empty items of an auditors string, in input order
TrimmedItems(text) ==
    LET Trimmed(i) == Strip(Split(text, ",")[i], " ")
        kept == {i \in 1..Len(Split(text, ",")) : Trimmed(i) # <<>>}
        Nth(k) == CHOOSE i \in kept : Cardinality({j \in kept : j < i}) = k - 1
    IN  [k \in 1..Cardinality(kept) |-> Trimmed(Nth(k))]

\* C32: parse_auditors accepts an auditors string exactly when every
\* non-empty trimmed item is one of the seven known categories, and returns
\* the items in input order; otherwise it raises ValueError naming exactly the
\* unknown items; 'all' in any letter case gives the empty list.
C32_AuditorsAreValidated ==
    (resolve.pc = "parsed" /\ resolve.auditors_value # None) =>
        LET text == resolve.auditors_value.value
            items == TrimmedItems(text)
            unknown == SelectSeq(items, LAMBDA a : a \notin allowed)
        IN  IF Lower(text) = STR_all
            THEN resolve.result = [returned |-> <<>>]
            ELSE IF unknown = <<>>
            THEN resolve.result = [returned |-> items]
            ELSE /\ "raised" \in DOMAIN resolve.result
                 /\ resolve.result.raised = "ValueError"
                 /\ resolve.result.error =
                          <<"I", "n", "v", "a", "l", "i", "d", " ", "a", "u", "d", "i", "t", "o", "r",
                            "(", "s", ")", ":", " ">>
                          \o Join(unknown, <<",", " ">>)
                          \o <<".", " ", "A", "l", "l", "o", "w", "e", "d", ":", " ">>
                          \o Join(SortedAllowed, <<",", " ">>)

\* 'slo,bogus' was refused, with 'bogus' as the one invalid auditor
C32_Witness ==
    /\ resolve.pc = "parsed"
    /\ resolve.auditors_value # None
    /\ resolve.auditors_value.value = STR_slo \o <<",">> \o STR_bogus
    /\ "raised" \in DOMAIN resolve.result
    /\ In(<<":", " ">> \o STR_bogus \o <<".">>, resolve.result.error)

----------------------------------------------------------------------------
(* The aggregation of the non-interactive pass *)

\* the batches of the pass whose list_audit_findings call raised, 1-based
FailedCalls == {i \in 1..Len(audit.outcomes) : audit.outcomes[i].kind = "raise"}

\* the k-th smallest element of a set of numbers
Nth(S, k) == CHOOSE i \in S : Cardinality({j \in S : j < i}) = k - 1

\* C33: execute_audit_api returns the findings of the successful batches
\* concatenated in batch order, and for every failed batch exactly one entry
\* {batch: 1-based index, error, targets_count: size of the chunk} in
\* BatchErrors, in batch order; BatchErrors is there exactly when a batch
\* failed.
C33_AggregatesInBatchOrder ==
    (audit.pc = "done" /\ audit.outcomes # <<>>) =>
        /\ "json" \in DOMAIN audit.output
        /\ audit.output.json.AuditFindings =
              Concat([ i \in 1..Len(audit.outcomes) |->
                         IF audit.outcomes[i].kind = "ok"
                         THEN GetAuditFindings(audit.outcomes[i].response)
                         ELSE <<>> ])
        /\ "BatchErrors" \in DOMAIN audit.output.json <=> FailedCalls # {}
        /\ FailedCalls # {} =>
              audit.output.json.BatchErrors =
                  [ k \in 1..Cardinality(FailedCalls) |->
                      [ batch |-> Nth(FailedCalls, k),
                        error |-> <<"API call failed: ", audit.outcomes[Nth(FailedCalls, k)].message>>,
                        targets_count |-> Len(audit.calls[Nth(FailedCalls, k)].AuditTargets) ] ]

\* a pass of three batches: findings, a failure, other findings
C33_Witness ==
    /\ audit.pc = "done"
    /\ Len(audit.outcomes) = 3
    /\ audit.outcomes[1].kind = "ok" /\ audit.outcomes[3].kind = "ok"
    /\ audit.outcomes[2].kind = "raise"
    /\ audit.output.json.AuditFindings = <<1, MaxFindings + 1>>
    /\ Len(audit.output.json.BatchErrors) = 1
    /\ audit.output.json.BatchErrors[1].batch = 2

----------------------------------------------------------------------------
(* The calls of the non-interactive pass *)

\* the calls made so far are the calls for the first chunks, in chunk order
CallsFollowTheChunks ==
    audit.pc \in {"calling", "done"} =>
        /\ Len(audit.calls) <= Len(audit.target_batches)
        /\ \A i \in 1..Len(audit.calls) :
              audit.calls[i] = AuditBatchInput(audit.input_obj, audit.target_batches[i])
        /\ audit.pc = "calling" => Len(audit.calls) = Len(audit.outcomes) + 1
        /\ audit.pc = "done" =>
              /\ Len(audit.calls) = Len(audit.target_batches)
              /\ Len(audit.outcomes) = Len(audit.target_batches)

\* C39: execute_audit_api submits every chunk exactly once, in chunk order,
\* one call at a time; a call that fails is not retried and does not end the
\* pass; the pass ends after as many list_audit_findings calls as there are
\* chunks.
C39_EveryChunkSubmittedOnce ==
    /\ []CallsFollowTheChunks
    /\ (audit.pc = "calling") ~> (audit.pc = "done")

\* a pass of three chunks whose first two calls failed has ended after its
\* third call
C39_Witness ==
    /\ audit.pc = "done"
    /\ Len(audit.target_batches) = 3
    /\ Len(audit.calls) = 3
    /\ audit.outcomes[1].kind = "raise"
    /\ audit.outcomes[2].kind = "raise"

----------------------------------------------------------------------------
(* The text returned by continue_audit_batch *)

\* C34: continue_audit_batch returns 'Error: <message>' for an unknown
\* session id, for a session without remaining chunks, for a chunk whose
\* list_audit_findings call failed and for an exception raised inside it; it
\* raises nothing itself.
C34_FailuresReturnErrorText ==
    last.op = "continue_audit_batch" =>
        LET failed == last.client # None /\ last.client.kind = "raise"
            nothing_processed == last.calls = <<>>
        IN  (failed \/ nothing_processed) =>
                /\ last.returned.starts = "Error: "
                /\ failed => last.returned.message = last.client.message

\* C35: when continue_audit_batch returns the result of a batch processed
\* with success and batches remain, the text holds the instruction
\* continue_audit_batch('<session id>'), with findings or without; for the
\* last batch it holds none.
C35_ContinuationWheneverBatchesRemain ==
    ( /\ last.op = "continue_audit_batch"
      /\ last.client # None
      /\ last.client.kind = "ok" ) =>
        last.returned.Continue =
            IF last.result.batch_index < last.result.total_batches
            THEN {last.batch_session_id.value} ELSE {}

----------------------------------------------------------------------------
(* The cursor and the progress summary of a BatchProcessingState *)

\* the chunks that the get_next_batch calls so far have returned
ChunksReturned == Cardinality({i \in 1..Len(plan.returns) : plan.returns[i] # {}})

\* C40: the get_next_batch calls of a BatchProcessingState with N chunks
\* return chunk 0, 1, ..., N-1 in order, each once, and None afterwards, and
\* current_batch_idx never exceeds N; when every chunk returned has been
\* followed by one add_batch_result, the summary has processed_batches +
\* remaining_batches = total_batches, successful_batches + failed_batches =
\* processed_batches, remaining_batches >= 0 and has_more exactly when
\* remaining_batches > 0.
C40_CursorAndSummaryAgree ==
    plan.pc = "progress" =>
        LET N == Len(plan.self.target_batches)
            summary == plan.summary
        IN  /\ \A i \in 1..Len(plan.returns) :
                  plan.returns[i] = IF i <= N THEN {plan.self.target_batches[i]} ELSE {}
            /\ plan.self.current_batch_idx <= N
            /\ (summary # None /\ Len(plan.self.processed_results) = ChunksReturned) =>
                  /\ summary.total_batches = N
                  /\ summary.processed_batches = ChunksReturned
                  /\ summary.processed_batches + summary.remaining_batches = summary.total_batches
                  /\ summary.successful_batches + summary.failed_batches = summary.processed_batches
                  /\ summary.remaining_batches >= 0
                  /\ summary.has_more <=> summary.remaining_batches > 0

\* three chunks were returned and answered, one of them with a failure, a
\* fourth call returned None, and the summary was taken
C40_Witness ==
    /\ plan.pc = "progress"
    /\ Len(plan.self.target_batches) = 3
    /\ Len(plan.returns) = 4
    /\ plan.returns[4] = {}
    /\ plan.summary # None
    /\ plan.summary.processed_batches = 3
    /\ plan.summary.failed_batches = 1
    /\ plan.summary.has_more = FALSE

----------------------------------------------------------------------------
(* The cursor, the status and the frame of the stored sessions *)

\* C36: after every serialized create_batch_session, process_next_batch
\* (succeeding or failing), update_batch_session_activity and cleanup, each
\* stored session has 0 <= current_batch_index <= number of chunks, and the
\* cursor of a session never decreases.
C36_CursorStaysInRange ==
    [][ \A sid \in DOMAIN sessions' :
          /\ 0 <= sessions'[sid].current_batch_index
          /\ sessions'[sid].current_batch_index <= Len(sessions'[sid].batches)
          /\ sid \in DOMAIN sessions =>
                sessions[sid].current_batch_index <= sessions'[sid].current_batch_index ]_vars

\* a session of two chunks has its cursor at the end after a call that
\* failed and one that succeeded
C36_Witness ==
    \E sid \in DOMAIN sessions :
        /\ Len(sessions[sid].batches) = 2
        /\ sessions[sid].current_batch_index = 2
        /\ Len(sessions[sid].failed_batches) = 1
        /\ Len(sessions[sid].processed_batches) = 1

\* created, in_progress, completed in their order
StatusRank(status) ==
    IF status = "created" THEN 0 ELSE IF status = "in_progress" THEN 1 ELSE 2

\* C37: a stored session is 'completed' exactly when its cursor has reached
\* the number of chunks and 'created' exactly when no chunk has been executed
\* and chunks remain, a session created with zero targets included, and the
\* status never moves backwards.
C37_StatusFollowsTheCursor ==
    [][ \A sid \in DOMAIN sessions' :
          LET session == sessions'[sid]
          IN  /\ session.status = "completed" <=>
                    session.current_batch_index = Len(session.batches)
              /\ session.status = "created" <=>
                    /\ session.processed_batches = <<>>
                    /\ session.failed_batches = <<>>
                    /\ session.current_batch_index < Len(session.batches)
              /\ sid \in DOMAIN sessions =>
                    StatusRank(sessions[sid].status) <= StatusRank(session.status) ]_vars

\* the fields of a session that are fixed at its creation
FixedAtCreation(session) ==
    << session.session_id, session.created_at, session.targets, session.batches,
       session.input_obj, session.auto_complete >>

====
